---- MODULE Spec2Model ----
(***************************************************************************)
(* A model of the module/workspace/image core of buf:                      *)
(*   - bufimage.buildImage and its helpers (build_image.go),              *)
(*   - bufmodule.moduleData and its tamper check (module_data.go),        *)
(*   - bufmodule.lazyModule / lazyModuleProvider (module_provider.go),    *)
(*   - bufmodule.moduleReadBucket file targeting (module_read_bucket.go), *)
(*   - bufworkspace.newModuleTargeting (module_targeting.go).             *)
(* Each subsystem has its own specification over the shared variables; a   *)
(* subsystem that a specification does not exercise stays in its idle      *)
(* state.                                                                  *)
(***************************************************************************)
EXTENDS Integers, Sequences, FiniteSets, TLC

VARIABLES
    \* ---- bufimage.buildImage ----
    imports,                \* path -> ordered import list of the file (FileDescriptor.Imports())
    isTargetFile,           \* path -> FileInfo.IsTargetFile() of the bucket's file
    shouldBeSelfContained,  \* ModuleReadBucket.ShouldBeSelfContained()
    numRuns,                \* number of buildImage calls made on this bucket
    firstResult,            \* result of the first buildImage call
    lastResult,             \* result of the latest buildImage call
    \* ---- bufmodule.moduleData ----
    moduleKey,              \* what moduleKey.Digest() yields: an error or the expected digest
    getBucket,              \* the once-cell around the getBucket function
    getDeclaredDepModuleKeys, \* the once-cell around the getDeclaredDepModuleKeys function
    checkDigest,            \* the once-cell of the tamper check
    actualDigest,           \* the digest the tamper check computed over the fetched data
    mdRuns,                 \* how often the wrapped functions and the check function ran
    mdPc,                   \* caller -> where the caller is inside Bucket()/DeclaredDepModuleKeys()
    mdOp,                   \* caller -> the accessor it is calling
    mdCalls,                \* number of accessor calls started
    mdReturns,              \* what the accessor calls returned, in the order they returned
    \* ---- bufmodule.lazyModuleProvider / lazyModule ----
    delegate,               \* the kind of ModuleProvider the lazy provider wraps
    moduleInfo,             \* the ModuleInfo handed to GetModuleForModuleInfo
    lazyModule,             \* "none", "created", or "rejected" (GetModuleForModuleInfo failed)
    getModuleAndDigest,     \* the once-cell of the resolution
    getDepModules,          \* the once-cell of the dependency list
    lmFetches,              \* number of delegate.GetModuleForModuleInfo calls
    lmPc,                   \* caller -> where the caller is inside a lazyModule method
    lmOp,                   \* caller -> the method it is calling
    lmCalls,                \* number of method calls started
    lmReturns,              \* what the method calls returned
    \* ---- bufmodule.moduleReadBucket ----
    rbDelegate,             \* the paths of the files in moduleReadBucket.delegate
    isTargetModule,         \* module.IsTargetModule()
    targetPathMap,          \* moduleReadBucket.targetPathMap
    targetExcludePathMap,   \* moduleReadBucket.targetExcludePathMap
    rbResult,               \* what the last call on the bucket produced
    \* ---- bufworkspace.newModuleTargeting ----
    config,                 \* the workspaceBucketConfig of the workspace
    moduleTargeting,        \* the last newModuleTargeting call: its arguments and its result
    \* ---- bufworkspace.workspaceProvider ----
    bucketConfig,           \* the workspaceBucketConfig of GetWorkspaceForBucket
    configOverride,         \* what reading the file of config.configOverride gives
    workspaceTargeting,     \* the workspaceTargeting of the bucket
    bucketFiles,            \* directory -> what reading its buf.yaml and its buf.lock gives
    remoteModule,           \* the module of the ModuleKey of GetWorkspaceForModuleKey
    resolution,             \* the local variables of the workspace resolution under way
    workspaceResult,        \* what the workspace resolution returned
    \* ---- bufmoduleapi.Upload ----
    targetLocalModulesAndTransitiveLocalDeps,   \* the modules given to Upload
    uploadResult,           \* what Upload returned, and what the upload service got
    \* ---- bufplugin.plugin ----
    plugin,                 \* the Plugin that newPlugin constructed, with its once-cells
    pluginReturn,           \* what the last constructor or method call returned
    \* ---- bufcheckserverutil ----
    checkRequest,           \* the check.Request: its files and its against files
    checkCtx,               \* the values the Before hook attached to the context
    handlerRequest,         \* the Request the rule handler function was called with
    \* ---- bufcheck.runnerProvider ----
    pluginConfig,           \* the PluginConfig given to NewRunner
    rnOnce,                 \* once, compiledModule and compiledModuleErr of the remote runner
    rnLoads,                \* how often loadRemotePlugin fetched, and how often it compiled
    rnPc,                   \* caller -> where the caller is inside Run
    rnCtx,                  \* caller -> the context of its Run call: "live" or "cancelled"
    rnCalls,                \* number of Run calls started
    rnReturns,              \* what the Run calls returned
    \* ---- the context of a memoized computation ----
    capturedCtx             \* the context newModuleData / GetModuleForModuleInfo was called with

imageVars == <<imports, isTargetFile, shouldBeSelfContained, numRuns, firstResult, lastResult>>

moduleDataVars ==
    <<moduleKey, getBucket, getDeclaredDepModuleKeys, checkDigest, actualDigest, mdRuns,
      mdPc, mdOp, mdCalls, mdReturns>>

lazyModuleVars ==
    <<delegate, moduleInfo, lazyModule, getModuleAndDigest, getDepModules,
      lmFetches, lmPc, lmOp, lmCalls, lmReturns>>

readBucketVars == <<rbDelegate, isTargetModule, targetPathMap, targetExcludePathMap, rbResult>>

moduleTargetingVars == <<config, moduleTargeting>>

workspaceVars ==
    <<bucketConfig, configOverride, workspaceTargeting, bucketFiles, remoteModule,
      resolution, workspaceResult>>

uploadVars == <<targetLocalModulesAndTransitiveLocalDeps, uploadResult>>

pluginVars == <<plugin, pluginReturn>>

checkServerVars == <<checkRequest, checkCtx, handlerRequest>>

runnerVars == <<pluginConfig, rnOnce, rnLoads, rnPc, rnCtx, rnCalls, rnReturns>>

contextVars == <<capturedCtx>>

vars ==
    <<imageVars, moduleDataVars, lazyModuleVars, readBucketVars, moduleTargetingVars,
      workspaceVars, uploadVars,
      pluginVars,
      checkServerVars,
      runnerVars,
      contextVars>>

\* what the operations of one subsystem leave alone
notImage ==
    <<moduleDataVars, lazyModuleVars, readBucketVars, moduleTargetingVars, workspaceVars,
      uploadVars,
      pluginVars,
      checkServerVars,
      runnerVars,
      contextVars>>
notModuleData ==
    <<imageVars, lazyModuleVars, readBucketVars, moduleTargetingVars, workspaceVars,
      uploadVars,
      pluginVars,
      checkServerVars,
      runnerVars,
      contextVars>>
notLazyModule ==
    <<imageVars, moduleDataVars, readBucketVars, moduleTargetingVars, workspaceVars,
      uploadVars,
      pluginVars,
      checkServerVars,
      runnerVars,
      contextVars>>
notReadBucket ==
    <<imageVars, moduleDataVars, lazyModuleVars, moduleTargetingVars, workspaceVars,
      uploadVars,
      pluginVars,
      checkServerVars,
      runnerVars,
      contextVars>>
notModuleTargeting ==
    <<imageVars, moduleDataVars, lazyModuleVars, readBucketVars, workspaceVars,
      uploadVars,
      pluginVars,
      checkServerVars,
      runnerVars,
      contextVars>>
notWorkspace ==
    <<imageVars, moduleDataVars, lazyModuleVars, readBucketVars, moduleTargetingVars,
      uploadVars,
      pluginVars,
      checkServerVars,
      runnerVars,
      contextVars>>
notUpload ==
    <<imageVars, moduleDataVars, lazyModuleVars, readBucketVars, moduleTargetingVars,
      workspaceVars,
      pluginVars,
      checkServerVars,
      runnerVars,
      contextVars>>
notPlugin ==
    <<imageVars, moduleDataVars, lazyModuleVars, readBucketVars, moduleTargetingVars, workspaceVars, uploadVars,
      checkServerVars,
      runnerVars,
      contextVars>>
notCheckServer ==
    <<imageVars, moduleDataVars, lazyModuleVars, readBucketVars, moduleTargetingVars, workspaceVars, uploadVars, pluginVars,
      runnerVars,
      contextVars>>
notRunner ==
    <<imageVars, moduleDataVars, lazyModuleVars, readBucketVars, moduleTargetingVars, workspaceVars, uploadVars, pluginVars, checkServerVars,
      contextVars>>
notContext ==
    <<imageVars, moduleDataVars, lazyModuleVars, readBucketVars, moduleTargetingVars, workspaceVars, uploadVars, pluginVars, checkServerVars, runnerVars>>

(***************************************************************************)
(* Bounds                                                                  *)
(***************************************************************************)
\* number of .proto files in the bucket; paths are 1..MaxFiles, ordered as
\* the path strings are ordered
MaxFiles == 3
\* number of buildImage calls on one bucket
MaxRuns == 2
\* number of different contents a fetched bucket (and a dependency list) can have
NumContents == 2
\* number of goroutines calling the accessors of one ModuleData
NumCallers == 2
\* number of accessor calls made on one ModuleData
MaxCalls == 3
MaxDepth == 2
\* the module configs of a config override of GetWorkspaceForModuleKey
MaxModuleConfigs == 3

(***************************************************************************)
(* Generic helpers                                                         *)
(***************************************************************************)
Range(s) == {s[i] : i \in 1..Len(s)}

IsInjective(s) == \A i, j \in 1..Len(s) : i # j => s[i] # s[j]

\* all sequences without repetition over S, of length 0..Cardinality(S)
InjectiveSeqs(S) ==
    {s \in UNION {[1..n -> S] : n \in 0..Cardinality(S)} : IsInjective(s)}

\* all orderings of the whole set S
Permutations_(S) == {s \in [1..Cardinality(S) -> S] : Range(s) = S}

Files == 1..MaxFiles

\* the name of a FileDescriptor without a name (fileDescriptor.Path() == "")
EmptyPath == 0

\* what the compiler said about parse/link errors in one Compile call: the
\* error it returned, whether its reporter was handed any error, and whether
\* turning an error into a FileAnnotation fails
CompilerDiagnostics(err, reported, annotationFails) ==
    [err |-> err, reported |-> reported, annotationFails |-> annotationFails]

\* the compiler was not called
NoDiagnostics == CompilerDiagnostics("none", FALSE, FALSE)

NoResult == [kind |-> "none", image |-> <<>>, annotations |-> <<>>, err |-> "",
             noParallelism |-> FALSE, compiled |-> "none", diagnostics |-> NoDiagnostics,
             compiledFiles |-> <<>>, sortedFileDescriptors |-> <<>>]

\* no bucket is being built
IdleImage ==
    /\ imports = [f \in Files |-> <<>>]
    /\ isTargetFile = [f \in Files |-> FALSE]
    /\ shouldBeSelfContained = FALSE
    /\ numRuns = 0
    /\ firstResult = NoResult
    /\ lastResult = NoResult

(***************************************************************************)
(* bufmodule.GetTargetFileInfos / FileInfoPaths                            *)
(***************************************************************************)
\* sort.Slice(fileInfos, func(i, j) { return fileInfos[i].Path() < fileInfos[j].Path() })
RECURSIVE SortInsert(_, _)
SortInsert(sorted, p) ==
    IF sorted = <<>> THEN <<p>>
    ELSE IF p < Head(sorted) THEN <<p>> \o sorted
    ELSE <<Head(sorted)>> \o SortInsert(Tail(sorted), p)

RECURSIVE SortByPath(_)
SortByPath(s) ==
    IF s = <<>> THEN <<>> ELSE SortInsert(SortByPath(Tail(s)), Head(s))

\* WalkFileInfos(..., WalkFileInfosWithOnlyTargetFiles()): the walk visits the
\* bucket in walkOrder and keeps the files whose IsTargetFile() is true
\* the onlyTargetFiles option is ignored
WalkOnlyTargetFiles_AllFiles(walkOrder) == walkOrder

WalkOnlyTargetFiles(walkOrder) ==
    SelectSeq(walkOrder, LAMBDA p : isTargetFile[p])

GetTargetFileInfos(walkOrder) == SortByPath(WalkOnlyTargetFiles(walkOrder))

(***************************************************************************)
(* bufimage.checkAndSortFileDescriptors                                    *)
(***************************************************************************)
\* the first index of a descriptor whose name was already seen, 0 if none
FirstDuplicate(fileDescriptors) ==
    LET dups == {j \in 1..Len(fileDescriptors) :
                    \E i \in 1..(j-1) : fileDescriptors[i] = fileDescriptors[j]}
    IN IF dups = {} THEN 0 ELSE CHOOSE j \in dups : \A k \in dups : j <= k

FirstEmpty(fileDescriptors) ==
    LET es == {j \in 1..Len(fileDescriptors) : fileDescriptors[j] = EmptyPath}
    IN IF es = {} THEN 0 ELSE CHOOSE j \in es : \A k \in es : j <= k

checkAndSortFileDescriptors(fileDescriptors, rootRelFilePaths) ==
    IF Len(fileDescriptors) # Len(rootRelFilePaths)
    THEN [err |-> "sort: length mismatch", fds |-> <<>>]
    ELSE LET e == FirstEmpty(fileDescriptors)
             d == FirstDuplicate(fileDescriptors)
         IN IF e # 0 /\ (d = 0 \/ e <= d)
            THEN [err |-> "sort: no name on FileDescriptor", fds |-> <<>>]
            ELSE IF d # 0
            THEN [err |-> "sort: duplicate FileDescriptor", fds |-> <<>>]
            ELSE IF \E i \in 1..Len(rootRelFilePaths) :
                        rootRelFilePaths[i] \notin Range(fileDescriptors)
            THEN [err |-> "sort: no FileDescriptor for rootRelFilePath", fds |-> <<>>]
            \* nameToFileDescriptor[rootRelFilePath], in rootRelFilePaths order
            ELSE [err |-> "", fds |-> [i \in 1..Len(rootRelFilePaths) |->
                     CHOOSE fd \in Range(fileDescriptors) : fd = rootRelFilePaths[i]]]

(***************************************************************************)
(* bufimage.getImageFilesRec / getImage                                    *)
(***************************************************************************)
NewImageFile(path, isImport) == [path |-> path, isImport |-> isImport]

\* The traversal state threaded through the recursion: the alreadySeen map
\* and the imageFiles slice.
RECURSIVE getImageFilesRec(_, _, _)
RECURSIVE getImageFilesImports(_, _, _, _)

\* for i := 0; i < fileDescriptor.Imports().Len(); i++ { ... }
getImageFilesImports(path, i, nonImportFilenames, st) ==
    IF i > Len(imports[path]) THEN st
    ELSE getImageFilesImports(path, i + 1, nonImportFilenames,
             getImageFilesRec(imports[path][i], nonImportFilenames, st))

\* the file is appended before its imports are walked
getImageFilesRec_PreOrder(path, nonImportFilenames, st) ==
    IF path \in st.alreadySeen THEN st
    ELSE LET st1 == [alreadySeen |-> st.alreadySeen \cup {path},
                     imageFiles |-> Append(st.imageFiles,
                         NewImageFile(path, path \notin nonImportFilenames))]
         IN getImageFilesImports(path, 1, nonImportFilenames, st1)

getImageFilesRec(path, nonImportFilenames, st) ==
    IF path \in st.alreadySeen THEN st
    ELSE LET st1 == [st EXCEPT !.alreadySeen = @ \cup {path}]
             st2 == getImageFilesImports(path, 1, nonImportFilenames, st1)
             isNotImport == path \in nonImportFilenames
         IN [st2 EXCEPT !.imageFiles =
                Append(@, NewImageFile(path, ~isNotImport))]

RECURSIVE getImageLoop(_, _, _, _)
getImageLoop(sortedFileDescriptors, i, nonImportFilenames, st) ==
    IF i > Len(sortedFileDescriptors) THEN st
    ELSE getImageLoop(sortedFileDescriptors, i + 1, nonImportFilenames,
             getImageFilesRec(sortedFileDescriptors[i], nonImportFilenames, st))

\* a target that another target imports is flagged as an import
getImage_ImportedTargetIsImport(sortedFileDescriptors) ==
    LET targets == Range(sortedFileDescriptors)
        nonImportFilenames ==
            {p \in targets : \A q \in targets : p \notin Range(imports[q])}
        st == getImageLoop(sortedFileDescriptors, 1, nonImportFilenames,
                  [alreadySeen |-> {}, imageFiles |-> <<>>])
    IN st.imageFiles

getImage(sortedFileDescriptors) ==
    LET nonImportFilenames == Range(sortedFileDescriptors)
        st == getImageLoop(sortedFileDescriptors, 1, nonImportFilenames,
                  [alreadySeen |-> {}, imageFiles |-> <<>>])
    IN st.imageFiles

\* return NewImage(imageFiles): the Image holds the files in the order given
NewImage(imageFiles) == imageFiles

(***************************************************************************)
(* The compiler (protocompile.Compiler.Compile) as buildImage sees it      *)
(***************************************************************************)
\* What one Compile call hands back: the returned error, the errors the
\* reporter collected, whether turning an error into a FileAnnotation fails
\* (normalpath.NormalizeAndValidate), and the compiled files.
CompilerOutcome(err, errorsWithPos, annotationFails, compiledFiles) ==
    [err |-> err, errorsWithPos |-> errorsWithPos,
     annotationFails |-> annotationFails, compiledFiles |-> compiledFiles]

\* compiled files that violate the compiler's contract
FaultyCompiledFiles(paths) ==
    IF paths = <<>> THEN {<<EmptyPath>>}
    ELSE {SubSeq(paths, 1, Len(paths) - 1),
          [paths EXCEPT ![1] = EmptyPath],
          [paths EXCEPT ![Len(paths)] = paths[1]]} \ {paths}

\* A sequential compile (parallelism 1) finishes and returns the files in the
\* requested order; a parallel compile may hand them back in any order.
CompiledFilesOrders(paths, noParallelism) ==
    IF noParallelism THEN {paths} ELSE Permutations_(Range(paths))

ReportedErrors == {<<1>>, <<MaxFiles, 1, MaxFiles>>}

CompilerOutcomes(paths, noParallelism) ==
    {CompilerOutcome("nil", <<>>, FALSE, cf) :
        cf \in CompiledFilesOrders(paths, noParallelism) \cup FaultyCompiledFiles(paths)}
    \cup {CompilerOutcome("nil", e, FALSE, paths) : e \in ReportedErrors}
    \cup {CompilerOutcome("ErrInvalidSource", e, af, <<>>) :
            e \in ReportedErrors \cup {<<>>}, af \in BOOLEAN}
    \cup {CompilerOutcome("ErrorWithPos", <<>>, af, <<>>) : af \in BOOLEAN}
    \cup {CompilerOutcome("other", <<>>, FALSE, <<>>)}

(***************************************************************************)
(* bufimage.getBuildResult                                                 *)
(***************************************************************************)
newBuildResult(fileDescriptors, fileAnnotations, err) ==
    [FileDescriptors |-> fileDescriptors, FileAnnotations |-> fileAnnotations, Err |-> err]

\* getFileAnnotations: one annotation per error, in order; here an annotation
\* is the path it points at
\* no error is turned into an annotation
getFileAnnotations_None(errorsWithPos) == <<>>

getFileAnnotations(errorsWithPos) == errorsWithPos

\* the compiled files are taken as they come, without comparing them with paths
getBuildResult_NoPathCheck(paths, outcome) ==
    IF outcome.err # "nil" \/ Len(outcome.errorsWithPos) > 0
    THEN newBuildResult(<<>>, <<>>, "compile error")
    ELSE newBuildResult(outcome.compiledFiles, <<>>, "")

getBuildResult(paths, outcome) ==
    IF outcome.err # "nil"
    THEN IF outcome.err = "ErrInvalidSource"
         THEN IF Len(outcome.errorsWithPos) = 0
              THEN newBuildResult(<<>>, <<>>, "got invalid source error from parse but no errors reported")
              ELSE IF outcome.annotationFails
              THEN newBuildResult(<<>>, <<>>, "invalid annotation path")
              ELSE newBuildResult(<<>>, getFileAnnotations(outcome.errorsWithPos), "")
         ELSE IF outcome.err = "ErrorWithPos"
         THEN IF outcome.annotationFails
              THEN newBuildResult(<<>>, <<>>, "invalid annotation path")
              ELSE newBuildResult(<<>>, getFileAnnotations(<<1>>), "")
         ELSE newBuildResult(<<>>, <<>>, "compile error")
    ELSE IF Len(outcome.errorsWithPos) > 0
    THEN newBuildResult(<<>>, <<>>, "got no error from parse but errors reported")
    ELSE IF Len(outcome.compiledFiles) # Len(paths)
    THEN newBuildResult(<<>>, <<>>, "expected FileDescriptors to be of length")
    ELSE IF \E i \in 1..Len(paths) : paths[i] # outcome.compiledFiles[i]
    THEN newBuildResult(<<>>, <<>>, "expected fileDescriptor name to be equal to path")
    ELSE newBuildResult(outcome.compiledFiles, <<>>, "")

(***************************************************************************)
(* bufimage.buildImage                                                     *)
(***************************************************************************)
\* bufanalysis.DeduplicateAndSortFileAnnotations
RECURSIVE Deduplicate(_)
Deduplicate(s) ==
    IF s = <<>> THEN <<>>
    ELSE IF Head(s) \in Range(Tail(s)) THEN Deduplicate(Tail(s))
    ELSE <<Head(s)>> \o Deduplicate(Tail(s))

DeduplicateAndSortFileAnnotations(fileAnnotations) == SortByPath(Deduplicate(fileAnnotations))

\* the three values buildImage returns, with the inputs of the call
\* (and, of the call of the compiler, what Compile returned and the
\* descriptors that were handed to getImage)
Result(kind, image, fileAnnotations, err, noParallelism, compiled, diagnostics, compiledFiles, sortedFileDescriptors) ==
    [kind |-> kind, image |-> image, annotations |-> fileAnnotations, err |-> err,
     noParallelism |-> noParallelism, compiled |-> compiled, diagnostics |-> diagnostics,
     compiledFiles |-> compiledFiles, sortedFileDescriptors |-> sortedFileDescriptors]

\* the diagnostics of the Compile call that getBuildResult makes
Diagnostics(outcome) ==
    CompilerDiagnostics(outcome.err, Len(outcome.errorsWithPos) > 0, outcome.annotationFails)

\* How the compile of the requested paths ended: "failed" (an error or
\* reported errors), or without any error and with the requested files
\* returned in the requested order ("ordered"), all of them in another order
\* ("reordered"), or not exactly the requested files ("faulty").
Compiled(paths, outcome) ==
    IF outcome.err # "nil" \/ Len(outcome.errorsWithPos) > 0 THEN "failed"
    ELSE IF outcome.compiledFiles = paths THEN "ordered"
    ELSE IF outcome.compiledFiles \in Permutations_(Range(paths)) THEN "reordered"
    ELSE "faulty"

\* the bucket is compiled whether it is self-contained or not
buildImage_NoSelfContainedCheck(targetFileInfos, noParallelism, outcome) ==
    IF Len(targetFileInfos) = 0
    THEN Result("error", <<>>, <<>>, "no input files specified", noParallelism, "none", NoDiagnostics, <<>>, <<>>)
    ELSE LET paths == targetFileInfos
             buildResult == getBuildResult(paths, outcome)
             compiled == Compiled(paths, outcome)
             diagnostics == Diagnostics(outcome) IN
    IF buildResult.Err # ""
    THEN Result("error", <<>>, <<>>, buildResult.Err, noParallelism, compiled, diagnostics,
                outcome.compiledFiles, <<>>)
    ELSE IF Len(buildResult.FileAnnotations) > 0
    THEN Result("annotations", <<>>,
                DeduplicateAndSortFileAnnotations(buildResult.FileAnnotations), "",
                noParallelism, compiled, diagnostics, outcome.compiledFiles, <<>>)
    ELSE LET sorted == checkAndSortFileDescriptors(buildResult.FileDescriptors, paths) IN
    IF sorted.err # ""
    THEN Result("error", <<>>, <<>>, sorted.err, noParallelism, compiled, diagnostics,
                outcome.compiledFiles, <<>>)
    ELSE Result("image", NewImage(getImage(sorted.fds)), <<>>, "", noParallelism, compiled, diagnostics,
                outcome.compiledFiles, sorted.fds)

\* targetFileInfos is what bufmodule.GetTargetFileInfos returned for the bucket
buildImage(targetFileInfos, noParallelism, outcome) ==
    IF ~shouldBeSelfContained
    THEN Result("error", <<>>, <<>>, "syserror: not self-contained", noParallelism, "none", NoDiagnostics, <<>>, <<>>)
    ELSE IF Len(targetFileInfos) = 0
    THEN Result("error", <<>>, <<>>, "no input files specified", noParallelism, "none", NoDiagnostics, <<>>, <<>>)
    ELSE LET paths == targetFileInfos
             buildResult == getBuildResult(paths, outcome)
             compiled == Compiled(paths, outcome)
             diagnostics == Diagnostics(outcome) IN
    IF buildResult.Err # ""
    THEN Result("error", <<>>, <<>>, buildResult.Err, noParallelism, compiled, diagnostics,
                outcome.compiledFiles, <<>>)
    ELSE IF Len(buildResult.FileAnnotations) > 0
    THEN Result("annotations", <<>>,
                DeduplicateAndSortFileAnnotations(buildResult.FileAnnotations), "",
                noParallelism, compiled, diagnostics, outcome.compiledFiles, <<>>)
    ELSE LET sorted == checkAndSortFileDescriptors(buildResult.FileDescriptors, paths) IN
    IF sorted.err # ""
    THEN Result("error", <<>>, <<>>, sorted.err, noParallelism, compiled, diagnostics,
                outcome.compiledFiles, <<>>)
    ELSE Result("image", NewImage(getImage(sorted.fds)), <<>>, "", noParallelism, compiled, diagnostics,
                outcome.compiledFiles, sorted.fds)

(***************************************************************************)
(* The import graph                                                        *)
(***************************************************************************)
RECURSIVE ReachFrom(_, _)
\* closure of S under the import relation imp
ReachFrom(imp, S) ==
    LET next == S \cup UNION {Range(imp[f]) : f \in S}
    IN IF next = S THEN S ELSE ReachFrom(imp, next)

\* the files f imports, directly or transitively
TransitiveImports(imp, f) == ReachFrom(imp, Range(imp[f]))

Acyclic(imp) == \A f \in Files : f \notin TransitiveImports(imp, f)

RECURSIVE Ascending(_)
Ascending(S) ==
    IF S = {} THEN <<>>
    ELSE LET m == CHOOSE x \in S : \A y \in S : x <= y
         IN <<m>> \o Ascending(S \ {m})

Reverse(s) == [i \in 1..Len(s) |-> s[Len(s) + 1 - i]]

\* A file lists each import once and never itself, and the linker rejects
\* cycles.  The import statements of the files are written in ascending or
\* in descending path order (with up to three files this is every order).
ImportGraphs ==
    {[f \in Files |-> IF descending THEN Reverse(Ascending(deps[f])) ELSE Ascending(deps[f])] :
        deps \in {d \in [Files -> SUBSET Files] :
                    /\ \A f \in Files : f \notin d[f]
                    /\ Acyclic([f \in Files |-> Ascending(d[f])])},
        descending \in BOOLEAN}

(***************************************************************************)
(* bufmodule.moduleData                                                    *)
(***************************************************************************)
Callers == 1..NumCallers

\* syncext.OnceValue(s), onceThreeValues, sync.OnceValues: what a call of the
\* wrapped function does, given the state of the cell behind it: the first
\* call runs the function, a call made while it runs waits for it, a call made
\* afterwards is handed the kept result
OnceCall(state) ==
    IF state = "idle" THEN "run" ELSE IF state = "running" THEN "wait" ELSE "replay"

Contents == 1..NumContents

\* a digest: its type and its value
Digest(type, value) == [type |-> type, value |-> value]

\* getB5Digest(ctx, bucket, declaredDepModuleKeys): the B5 digest of the
\* files and the declared dependencies; different data has a different digest
getB5Digest(bucket, declaredDepModuleKeys) ==
    Digest("b5", (bucket.files - 1) * NumContents + declaredDepModuleKeys)

\* DigestEqual(a, b): same type and same value
DigestEqual(a, b) == a.type = b.type /\ a.value = b.value

Digests == {Digest(t, v) : t \in {"b4", "b5"}, v \in 1..(NumContents * NumContents)}

\* the bucket a getBucket function hands back: the module's files, and
\* possibly files that are no module files
RawBuckets == [files : Contents, extra : BOOLEAN]

\* getSyncOnceValuesGetBucketWithStorageMatcherApplied: the bucket is mapped
\* to the module files only
StorageMatcherApplied(bucket) == [bucket EXCEPT !.extra = FALSE]

NoBucket == [files |-> 0, extra |-> FALSE]
NoDeps == 0
NoDigest == Digest("none", 0)

\* a once-cell of a function that returns (value, error)
IdleCell(none) == [done |-> FALSE, val |-> none, err |-> ""]
DoneCell(val, err) == [done |-> TRUE, val |-> val, err |-> err]

\* what the wrapped functions can return when they are run
GetBucketOutcomes ==
    {DoneCell(StorageMatcherApplied(b), "") : b \in RawBuckets}
    \cup {DoneCell(NoBucket, "getBucket failed")}

GetDeclaredDepModuleKeysOutcomes ==
    {DoneCell(d, "") : d \in Contents} \cup {DoneCell(NoDeps, "getDeclaredDepModuleKeys failed")}

ModuleKeyDigests ==
    {[err |-> "", digest |-> d] : d \in Digests}
    \cup {[err |-> "moduleKey.Digest failed", digest |-> NoDigest]}

VerificationFailed == "verification failed"

\* the last step of the checkDigest function: compare the digests
\* the comparison is left out
CompareDigests_NoCompare(expected, actual) == ""

CompareDigests(expected, actual) ==
    IF ~DigestEqual(expected, actual) THEN VerificationFailed ELSE ""

IdleModuleData ==
    /\ moduleKey = [err |-> "", digest |-> NoDigest]
    /\ getBucket = IdleCell(NoBucket)
    /\ getDeclaredDepModuleKeys = IdleCell(NoDeps)
    /\ checkDigest = [state |-> "idle", err |-> ""]
    /\ actualDigest = NoDigest
    /\ mdRuns = [getBucket |-> 0, getDeclaredDepModuleKeys |-> 0, checkDigest |-> 0]
    /\ mdPc = [c \in Callers |-> "idle"]
    /\ mdOp = [c \in Callers |-> "none"]
    /\ mdCalls = 0
    /\ mdReturns = <<>>

\* newModuleData: nothing is fetched or checked yet
newModuleData ==
    /\ moduleKey \in ModuleKeyDigests
    /\ getBucket = IdleCell(NoBucket)
    /\ getDeclaredDepModuleKeys = IdleCell(NoDeps)
    /\ checkDigest = [state |-> "idle", err |-> ""]
    /\ actualDigest = NoDigest
    /\ mdRuns = [getBucket |-> 0, getDeclaredDepModuleKeys |-> 0, checkDigest |-> 0]
    /\ mdPc = [c \in Callers |-> "idle"]
    /\ mdOp = [c \in Callers |-> "none"]
    /\ mdCalls = 0
    /\ mdReturns = <<>>

\* a caller enters Bucket() or DeclaredDepModuleKeys()
MdCall(c, op) ==
    /\ mdPc[c] = "idle"
    /\ mdCalls < MaxCalls
    /\ mdCalls' = mdCalls + 1
    /\ mdOp' = [mdOp EXCEPT ![c] = op]
    /\ mdPc' = [mdPc EXCEPT ![c] = "checkDigest"]
    /\ UNCHANGED <<moduleKey, getBucket, getDeclaredDepModuleKeys, checkDigest, actualDigest,
                   mdRuns, mdReturns>>
    /\ UNCHANGED notModuleData

\* a failed check is not kept: the next caller runs the check again
MdCheckDigest_RetryAfterFailure(c) ==
    /\ mdPc[c] = "checkDigest"
    /\ checkDigest.state # "running"
    /\ IF checkDigest.state = "idle" \/ checkDigest.err # ""
       THEN /\ checkDigest' = [state |-> "running", err |-> ""]
            /\ mdRuns' = [mdRuns EXCEPT !.checkDigest = @ + 1]
            /\ mdPc' = [mdPc EXCEPT ![c] = "check:getBucket"]
       ELSE /\ mdPc' = [mdPc EXCEPT ![c] = "checked"]
            /\ UNCHANGED <<checkDigest, mdRuns>>
    /\ UNCHANGED <<moduleKey, getBucket, getDeclaredDepModuleKeys, actualDigest, mdOp, mdCalls,
                   mdReturns>>
    /\ UNCHANGED notModuleData

\* m.checkDigest(): the first caller runs the check, a caller that arrives
\* while it runs waits, a caller that arrives later gets the cached result
MdCheckDigest(c) ==
    /\ mdPc[c] = "checkDigest"
    /\ OnceCall(checkDigest.state) # "wait"
    /\ IF OnceCall(checkDigest.state) = "run"
       THEN /\ checkDigest' = [checkDigest EXCEPT !.state = "running"]
            /\ mdRuns' = [mdRuns EXCEPT !.checkDigest = @ + 1]
            /\ mdPc' = [mdPc EXCEPT ![c] = "check:getBucket"]
       ELSE /\ mdPc' = [mdPc EXCEPT ![c] = "checked"]
            /\ UNCHANGED <<checkDigest, mdRuns>>
    /\ UNCHANGED <<moduleKey, getBucket, getDeclaredDepModuleKeys, actualDigest, mdOp, mdCalls,
                   mdReturns>>
    /\ UNCHANGED notModuleData

\* the check is over with error err ("" for none): syncext.OnceValue keeps
\* the result for this and every other caller
MdCheckEnds(c, err) ==
    /\ checkDigest' = [state |-> "done", err |-> err]
    /\ mdPc' = [mdPc EXCEPT ![c] = "checked"]

\* bucket, err := moduleData.getBucket()
MdCheckGetBucket(c) ==
    /\ mdPc[c] = "check:getBucket"
    /\ \E out \in IF getBucket.done THEN {getBucket} ELSE GetBucketOutcomes :
         /\ getBucket' = out
         /\ mdRuns' = IF getBucket.done THEN mdRuns ELSE [mdRuns EXCEPT !.getBucket = @ + 1]
         /\ IF out.err # ""
            THEN MdCheckEnds(c, out.err)
            ELSE /\ mdPc' = [mdPc EXCEPT ![c] = "check:getDeclaredDepModuleKeys"]
                 /\ UNCHANGED checkDigest
    /\ UNCHANGED <<moduleKey, getDeclaredDepModuleKeys, actualDigest, mdOp, mdCalls, mdReturns>>
    /\ UNCHANGED notModuleData

\* declaredDepModuleKeys, err := moduleData.getDeclaredDepModuleKeys()
MdCheckGetDeclaredDepModuleKeys(c) ==
    /\ mdPc[c] = "check:getDeclaredDepModuleKeys"
    /\ \E out \in IF getDeclaredDepModuleKeys.done THEN {getDeclaredDepModuleKeys}
                  ELSE GetDeclaredDepModuleKeysOutcomes :
         /\ getDeclaredDepModuleKeys' = out
         /\ mdRuns' = IF getDeclaredDepModuleKeys.done THEN mdRuns
                      ELSE [mdRuns EXCEPT !.getDeclaredDepModuleKeys = @ + 1]
         /\ IF out.err # ""
            THEN MdCheckEnds(c, out.err)
            ELSE /\ mdPc' = [mdPc EXCEPT ![c] = "check:digest"]
                 /\ UNCHANGED checkDigest
    /\ UNCHANGED <<moduleKey, getBucket, actualDigest, mdOp, mdCalls, mdReturns>>
    /\ UNCHANGED notModuleData

\* expectedDigest, err := moduleKey.Digest(); actualDigest, err := getB5Digest(...);
\* if !DigestEqual(expectedDigest, actualDigest) { return verification error }
MdCheckCompare(c) ==
    /\ mdPc[c] = "check:digest"
    /\ IF moduleKey.err # ""
       THEN MdCheckEnds(c, moduleKey.err) /\ UNCHANGED actualDigest
       ELSE \E b5Fails \in BOOLEAN :
              IF b5Fails
              THEN MdCheckEnds(c, "getB5Digest failed") /\ UNCHANGED actualDigest
              ELSE LET actual == getB5Digest(getBucket.val, getDeclaredDepModuleKeys.val) IN
                   /\ actualDigest' = actual
                   /\ MdCheckEnds(c, CompareDigests(moduleKey.digest, actual))
    /\ UNCHANGED <<moduleKey, getBucket, getDeclaredDepModuleKeys, mdRuns, mdOp, mdCalls,
                   mdReturns>>
    /\ UNCHANGED notModuleData

\* what an accessor returns: a value and an error
MdReturned(op, bucket, deps, err) ==
    [op |-> op, bucket |-> bucket, deps |-> deps, err |-> err]

\* Bucket() runs the getBucket function again instead of asking the once-cell
MdReturn_Refetch(c) ==
    /\ mdPc[c] = "checked"
    /\ IF checkDigest.err # ""
       THEN /\ mdReturns' = Append(mdReturns,
                   MdReturned(mdOp[c], NoBucket, NoDeps, checkDigest.err))
            /\ UNCHANGED mdRuns
       ELSE IF mdOp[c] = "Bucket"
       THEN \E out \in GetBucketOutcomes :
               /\ mdReturns' = Append(mdReturns, MdReturned(mdOp[c], out.val, NoDeps, out.err))
               /\ mdRuns' = [mdRuns EXCEPT !.getBucket = @ + 1]
       ELSE /\ mdReturns' = Append(mdReturns,
                   MdReturned(mdOp[c], NoBucket, getDeclaredDepModuleKeys.val,
                              getDeclaredDepModuleKeys.err))
            /\ UNCHANGED mdRuns
    /\ mdPc' = [mdPc EXCEPT ![c] = "idle"]
    /\ mdOp' = [mdOp EXCEPT ![c] = "none"]
    /\ UNCHANGED <<moduleKey, getBucket, getDeclaredDepModuleKeys, checkDigest, actualDigest,
                   mdCalls>>
    /\ UNCHANGED notModuleData

\* if err := m.checkDigest(); err != nil { return nil, err }
\* return m.getBucket()   /   return m.getDeclaredDepModuleKeys()
MdReturn(c) ==
    /\ mdPc[c] = "checked"
    /\ mdReturns' = Append(mdReturns,
          IF checkDigest.err # ""
          THEN MdReturned(mdOp[c], NoBucket, NoDeps, checkDigest.err)
          ELSE IF mdOp[c] = "Bucket"
          THEN MdReturned(mdOp[c], getBucket.val, NoDeps, getBucket.err)
          ELSE MdReturned(mdOp[c], NoBucket, getDeclaredDepModuleKeys.val,
                          getDeclaredDepModuleKeys.err))
    /\ mdPc' = [mdPc EXCEPT ![c] = "idle"]
    /\ mdOp' = [mdOp EXCEPT ![c] = "none"]
    /\ UNCHANGED <<moduleKey, getBucket, getDeclaredDepModuleKeys, checkDigest, actualDigest,
                   mdRuns, mdCalls>>
    /\ UNCHANGED notModuleData

(***************************************************************************)
(* bufmodule.lazyModuleProvider and lazyModule                             *)
(***************************************************************************)
\* the methods of a Module that need its content
ContentMethods == {"GetFile", "StatFileInfo", "WalkFileInfos", "Digest", "DepModules"}

\* the ModuleInfo methods, which lazyModule inherits from the embedded ModuleInfo
InfoMethods == {"ModuleFullName", "CommitID"}

\* the ModuleInfos a caller can pass: with or without a ModuleFullName, and
\* with a Digest() that fails or yields a digest
ModuleInfoDigests ==
    {[err |-> "", digest |-> Digest(t, v)] : t \in {"b4", "b5"}, v \in Contents}
    \cup {[err |-> "moduleInfo.Digest failed", digest |-> NoDigest]}

ModuleInfos ==
    [hasModuleFullName : BOOLEAN, digest : ModuleInfoDigests]

NoModule == [content |-> 0, digestErr |-> ""]

\* the Modules a ModuleProvider can return: the content decides the digest,
\* and Digest() of the Module may fail
Modules == [content : Contents, digestErr : {"", "module.Digest failed"}]

\* module.Digest()
ModuleDigest(module) == Digest("b5", module.content)

\* apiModuleProvider.GetModuleForModuleInfo: every path ends in an error (the
\* error of moduleInfo.Digest() is one of them when there is no commit ID)
apiGetModuleForModuleInfo(info) ==
    {[err |-> e, module |-> NoModule] :
        e \in (IF ~info.hasModuleFullName THEN {"module full name required"}
               ELSE {"GetCommitNodes failed", "expected 1 CommitNode", "TODO"}
                    \cup (IF info.digest.err # "" THEN {info.digest.err} ELSE {}))}

\* l.delegate.GetModuleForModuleInfo(ctx, moduleInfo)
DelegateGetModuleForModuleInfo(info) ==
    IF delegate = "api" THEN apiGetModuleForModuleInfo(info)
    ELSE {[err |-> "", module |-> m] : m \in Modules}
         \cup {[err |-> "delegate failed", module |-> NoModule]}

IdleResolution == [state |-> "idle", module |-> NoModule, digest |-> NoDigest, err |-> ""]
IdleDepModules == [state |-> "idle", module |-> NoModule, err |-> ""]

IdleLazyModule ==
    /\ delegate = "api"
    /\ moduleInfo = [hasModuleFullName |-> FALSE, digest |-> [err |-> "", digest |-> NoDigest]]
    /\ lazyModule = "none"
    /\ getModuleAndDigest = IdleResolution
    /\ getDepModules = IdleDepModules
    /\ lmFetches = 0
    /\ lmPc = [c \in Callers |-> "idle"]
    /\ lmOp = [c \in Callers |-> "none"]
    /\ lmCalls = 0
    /\ lmReturns = {}

\* NewAPIModuleProvider (delegate "api") or newLazyModuleProvider around
\* another ModuleProvider: no Module has been asked for yet
newLazyModuleProvider ==
    /\ delegate \in {"api", "other"}
    /\ moduleInfo \in ModuleInfos
    /\ lazyModule = "none"
    /\ getModuleAndDigest = IdleResolution
    /\ getDepModules = IdleDepModules
    /\ lmFetches = 0
    /\ lmPc = [c \in Callers |-> "idle"]
    /\ lmOp = [c \in Callers |-> "none"]
    /\ lmCalls = 0
    /\ lmReturns = {}

\* the delegate is asked for the Module when the lazy Module is created
GetModuleForModuleInfo_Eager ==
    /\ lazyModule = "none"
    /\ lazyModule' = IF moduleInfo.hasModuleFullName THEN "created" ELSE "rejected"
    /\ lmFetches' = lmFetches + 1
    /\ \E out \in DelegateGetModuleForModuleInfo(moduleInfo) :
          getModuleAndDigest' = [state |-> "done", module |-> out.module,
                                 digest |-> NoDigest, err |-> out.err]
    /\ UNCHANGED <<delegate, moduleInfo, getDepModules,
                   lmPc, lmOp, lmCalls, lmReturns>>
    /\ UNCHANGED notLazyModule

\* lazyModuleProvider.GetModuleForModuleInfo: validates the name and wraps the
\* delegate call in a function that newLazyModule keeps for later
GetModuleForModuleInfo ==
    /\ lazyModule = "none"
    /\ lazyModule' = IF moduleInfo.hasModuleFullName THEN "created" ELSE "rejected"
    /\ UNCHANGED <<delegate, moduleInfo, getModuleAndDigest, getDepModules,
                   lmFetches, lmPc, lmOp, lmCalls, lmReturns>>
    /\ UNCHANGED notLazyModule

LmReturned(op, module, digest, err) ==
    [op |-> op, module |-> module, digest |-> digest, err |-> err]

\* ModuleFullName() / CommitID(): answered by the embedded ModuleInfo
LmInfo(c, op) ==
    /\ lazyModule = "created"
    /\ lmPc[c] = "idle"
    /\ lmCalls < MaxCalls
    /\ lmCalls' = lmCalls + 1
    /\ lmReturns' = lmReturns \cup {LmReturned(op, NoModule, NoDigest, "")}
    /\ UNCHANGED <<delegate, moduleInfo, lazyModule, getModuleAndDigest,
                   getDepModules, lmFetches, lmPc, lmOp>>
    /\ UNCHANGED notLazyModule

\* a caller enters GetFile, StatFileInfo, WalkFileInfos, Digest or DepModules
LmCall(c, op) ==
    /\ lazyModule = "created"
    /\ lmPc[c] = "idle"
    /\ lmCalls < MaxCalls
    /\ lmCalls' = lmCalls + 1
    /\ lmOp' = [lmOp EXCEPT ![c] = op]
    /\ lmPc' = [lmPc EXCEPT ![c] = IF op = "DepModules" THEN "getDepModules"
                                   ELSE "getModuleAndDigest"]
    /\ UNCHANGED <<delegate, moduleInfo, lazyModule, getModuleAndDigest,
                   getDepModules, lmFetches, lmReturns>>
    /\ UNCHANGED notLazyModule

\* m.getDepModules() (sync.OnceValues): the first caller computes the list
LmGetDepModules(c) ==
    /\ lmPc[c] = "getDepModules"
    /\ OnceCall(getDepModules.state) # "wait"
    /\ IF OnceCall(getDepModules.state) = "run"
       THEN /\ getDepModules' = [getDepModules EXCEPT !.state = "running"]
            /\ lmPc' = [lmPc EXCEPT ![c] = "getModuleAndDigest"]
       ELSE /\ lmPc' = [lmPc EXCEPT ![c] = "return"]
            /\ UNCHANGED getDepModules
    /\ UNCHANGED <<delegate, moduleInfo, lazyModule, getModuleAndDigest,
                   lmFetches, lmOp, lmCalls, lmReturns>>
    /\ UNCHANGED notLazyModule

\* where a caller continues once getModuleAndDigest() has returned
AfterResolution(c) == IF lmOp[c] = "DepModules" THEN "depModules" ELSE "return"

\* a method that finds the resolution failed runs it again
LmGetModuleAndDigest_RetryAfterFailure(c) ==
    /\ lmPc[c] = "getModuleAndDigest"
    /\ OnceCall(getModuleAndDigest.state) # "wait"
    /\ IF OnceCall(getModuleAndDigest.state) = "run" \/ getModuleAndDigest.err # ""
       THEN /\ getModuleAndDigest' = [IdleResolution EXCEPT !.state = "running"]
            /\ lmPc' = [lmPc EXCEPT ![c] = "getModuleFunc"]
       ELSE /\ lmPc' = [lmPc EXCEPT ![c] = AfterResolution(c)]
            /\ UNCHANGED getModuleAndDigest
    /\ UNCHANGED <<delegate, moduleInfo, lazyModule, getDepModules,
                   lmFetches, lmOp, lmCalls, lmReturns>>
    /\ UNCHANGED notLazyModule

\* m.getModuleAndDigest() (onceThreeValues): the first caller resolves, a
\* caller that arrives meanwhile waits, later callers get the kept result
LmGetModuleAndDigest(c) ==
    /\ lmPc[c] = "getModuleAndDigest"
    /\ OnceCall(getModuleAndDigest.state) # "wait"
    /\ IF OnceCall(getModuleAndDigest.state) = "run"
       THEN /\ getModuleAndDigest' = [getModuleAndDigest EXCEPT !.state = "running"]
            /\ lmPc' = [lmPc EXCEPT ![c] = "getModuleFunc"]
       ELSE /\ lmPc' = [lmPc EXCEPT ![c] = AfterResolution(c)]
            /\ UNCHANGED getModuleAndDigest
    /\ UNCHANGED <<delegate, moduleInfo, lazyModule, getDepModules,
                   lmFetches, lmOp, lmCalls, lmReturns>>
    /\ UNCHANGED notLazyModule

\* the resolution is over
LmResolved(c, module, digest, err) ==
    /\ getModuleAndDigest' = [state |-> "done", module |-> module, digest |-> digest,
                              err |-> err]
    /\ lmPc' = [lmPc EXCEPT ![c] = AfterResolution(c)]

\* module, err := getModuleFunc()
LmGetModuleFunc(c) ==
    /\ lmPc[c] = "getModuleFunc"
    /\ lmFetches' = lmFetches + 1
    /\ \E out \in DelegateGetModuleForModuleInfo(moduleInfo) :
          IF out.err # ""
          THEN LmResolved(c, NoModule, NoDigest, out.err)
          ELSE /\ getModuleAndDigest' = [getModuleAndDigest EXCEPT !.module = out.module]
               /\ lmPc' = [lmPc EXCEPT ![c] = "digests"]
    /\ UNCHANGED <<delegate, moduleInfo, lazyModule, getDepModules,
                   lmOp, lmCalls, lmReturns>>
    /\ UNCHANGED notLazyModule

\* expectedDigest, err := moduleInfo.Digest(); actualDigest, err := module.Digest();
\* if !bufcas.DigestEqual(expectedDigest, actualDigest) { return error }
\* the fetched module is trusted without comparing the digests
VerifyModule_NoCompare(expected, module) ==
    IF expected.err # "" THEN [err |-> expected.err, digest |-> NoDigest]
    ELSE IF module.digestErr # "" THEN [err |-> module.digestErr, digest |-> NoDigest]
    ELSE [err |-> "", digest |-> ModuleDigest(module)]

VerifyModule(expected, module) ==
    IF expected.err # "" THEN [err |-> expected.err, digest |-> NoDigest]
    ELSE IF module.digestErr # "" THEN [err |-> module.digestErr, digest |-> NoDigest]
    ELSE IF ~DigestEqual(expected.digest, ModuleDigest(module))
    THEN [err |-> "expected digest, got another", digest |-> NoDigest]
    ELSE [err |-> "", digest |-> ModuleDigest(module)]

LmDigests(c) ==
    /\ lmPc[c] = "digests"
    /\ LET v == VerifyModule(moduleInfo.digest, getModuleAndDigest.module) IN
       IF v.err # ""
       THEN LmResolved(c, NoModule, NoDigest, v.err)
       ELSE LmResolved(c, getModuleAndDigest.module, v.digest, "")
    /\ UNCHANGED <<delegate, moduleInfo, lazyModule, getDepModules,
                   lmFetches, lmOp, lmCalls, lmReturns>>
    /\ UNCHANGED notLazyModule

\* what is left of the getDepModules function after getModuleAndDigest():
\* module.DepModules(ctx), then getActualDepModules over the potential and the
\* declared dependencies; either may fail
DepModulesErrors == {"", "module.DepModules failed", "getActualDepModules failed"}

LmDepModules(c) ==
    /\ lmPc[c] = "depModules"
    /\ IF getModuleAndDigest.err # ""
       THEN getDepModules' = [state |-> "done", module |-> NoModule,
                              err |-> getModuleAndDigest.err]
       ELSE \E err \in DepModulesErrors :
              getDepModules' =
                [state |-> "done", err |-> err,
                 module |-> IF err = "" THEN getModuleAndDigest.module ELSE NoModule]
    /\ lmPc' = [lmPc EXCEPT ![c] = "return"]
    /\ UNCHANGED <<delegate, moduleInfo, lazyModule, getModuleAndDigest,
                   lmFetches, lmOp, lmCalls, lmReturns>>
    /\ UNCHANGED notLazyModule

\* the method returns: the error of the resolution, or what the resolved
\* Module answers
LmReturn(c) ==
    /\ lmPc[c] = "return"
    /\ lmReturns' = lmReturns \cup {
           IF lmOp[c] = "DepModules"
           THEN LmReturned(lmOp[c], getDepModules.module, NoDigest, getDepModules.err)
           ELSE IF getModuleAndDigest.err # ""
           THEN LmReturned(lmOp[c], NoModule, NoDigest, getModuleAndDigest.err)
           ELSE IF lmOp[c] = "Digest"
           THEN LmReturned(lmOp[c], NoModule, getModuleAndDigest.digest, "")
           ELSE LmReturned(lmOp[c], getModuleAndDigest.module, NoDigest, "")}
    /\ lmPc' = [lmPc EXCEPT ![c] = "idle"]
    /\ lmOp' = [lmOp EXCEPT ![c] = "none"]
    /\ UNCHANGED <<delegate, moduleInfo, lazyModule, getModuleAndDigest,
                   getDepModules, lmFetches, lmCalls>>
    /\ UNCHANGED notLazyModule

(***************************************************************************)
(* normalpath: a normalized relative path is the sequence of its           *)
(* components; "." is the empty sequence                                    *)
(***************************************************************************)
Names == {"a", "b"}

Root == <<>>

RECURSIVE PathsOfDepth(_)
PathsOfDepth(n) ==
    IF n = 0 THEN {Root}
    ELSE {Append(path, name) : path \in PathsOfDepth(n - 1), name \in Names}

Paths == UNION {PathsOfDepth(n) : n \in 0..MaxDepth}

\* normalpath.Dir: the parent of a path; the parent of "." is "."
Dir(path) == IF path = Root THEN Root ELSE SubSeq(path, 1, Len(path) - 1)

\* normalpath.MapHasEqualOrContainingPath(m, path, normalpath.Relative): walks
\* from path up to the root and looks every path on the way up in the map
RECURSIVE MapHasEqualOrContainingPath(_, _)
MapHasEqualOrContainingPath(m, path) ==
    IF m = {} THEN FALSE
    ELSE IF path \in m THEN TRUE
    ELSE IF path = Root THEN FALSE
    ELSE MapHasEqualOrContainingPath(m, Dir(path))

\* the maps of zero, one or two paths
PathMaps == {{}} \cup {{p, q} : p, q \in Paths}

(***************************************************************************)
(* bufmodule.moduleReadBucket                                              *)
(***************************************************************************)
\* the files of a bucket: no file path is a directory of another file
Buckets ==
    {PathsOfDepth(MaxDepth),
     {<<"a">>} \cup {path \in PathsOfDepth(MaxDepth) : path[1] = "b"}}

NoCall == [op |-> "none", onlyTargetFiles |-> FALSE, fileInfos |-> {}, err |-> ""]

IdleReadBucket ==
    /\ rbDelegate = {}
    /\ isTargetModule = FALSE
    /\ targetPathMap = {}
    /\ targetExcludePathMap = {}
    /\ rbResult = NoCall

\* newModuleReadBucket: targetPathMap and targetExcludePathMap are the sets of
\* the paths passed in
newModuleReadBucket ==
    /\ rbDelegate \in Buckets
    /\ isTargetModule \in BOOLEAN
    /\ targetPathMap \in PathMaps
    /\ targetExcludePathMap \in PathMaps
    /\ rbResult = NoCall

\* exclude paths are looked at only when there are no include paths
getIsTargetedFileForPath_ExcludesOnlyWithoutIncludes(path) ==
    IF ~isTargetModule THEN FALSE
    ELSE IF targetPathMap = {} /\ targetExcludePathMap = {} THEN TRUE
    ELSE IF targetPathMap = {}
    THEN ~MapHasEqualOrContainingPath(targetExcludePathMap, path)
    ELSE MapHasEqualOrContainingPath(targetPathMap, path)

\* moduleReadBucket.getIsTargetedFileForPath
getIsTargetedFileForPath(path) ==
    IF ~isTargetModule THEN FALSE
    ELSE IF targetPathMap = {} /\ targetExcludePathMap = {} THEN TRUE
    ELSE IF targetPathMap = {} /\ targetExcludePathMap # {}
    THEN ~MapHasEqualOrContainingPath(targetExcludePathMap, path)
    ELSE IF targetPathMap # {} /\ targetExcludePathMap = {}
    THEN MapHasEqualOrContainingPath(targetPathMap, path)
    ELSE /\ MapHasEqualOrContainingPath(targetPathMap, path)
         /\ ~MapHasEqualOrContainingPath(targetExcludePathMap, path)

\* moduleReadBucket.newFileInfo: the FileInfo keeps the answer it was made with
newFileInfo(path) ==
    [path |-> path, isTargetFile |-> getIsTargetedFileForPath(path),
     moduleWasTarget |-> isTargetModule]

\* moduleReadBucket.StatFileInfo (GetFile goes through it)
StatFileInfo(path) ==
    /\ rbResult = NoCall
    /\ rbResult' =
         IF path \notin rbDelegate
         THEN [op |-> "StatFileInfo", onlyTargetFiles |-> FALSE, fileInfos |-> {},
               err |-> "file does not exist"]
         ELSE [op |-> "StatFileInfo", onlyTargetFiles |-> FALSE,
               fileInfos |-> {newFileInfo(path)}, err |-> ""]
    /\ UNCHANGED <<rbDelegate, isTargetModule, targetPathMap, targetExcludePathMap>>
    /\ UNCHANGED notReadBucket

\* moduleReadBucket.WalkFileInfos, with WalkFileInfosWithOnlyTargetFiles or
\* without: the FileInfos handed to the callback
WalkFileInfos(onlyTargetFiles) ==
    /\ rbResult = NoCall
    /\ rbResult' =
         [op |-> "WalkFileInfos", onlyTargetFiles |-> onlyTargetFiles, err |-> "",
          fileInfos |-> {fileInfo \in {newFileInfo(path) : path \in rbDelegate} :
                            ~(onlyTargetFiles /\ ~fileInfo.isTargetFile)}]
    /\ UNCHANGED <<rbDelegate, isTargetModule, targetPathMap, targetExcludePathMap>>
    /\ UNCHANGED notReadBucket

\* module.setIsTargetModule, used while a ModuleSet is built
SetIsTargetModule(isTarget) ==
    /\ isTargetModule' = isTarget
    /\ UNCHANGED <<rbDelegate, targetPathMap, targetExcludePathMap, rbResult>>
    /\ UNCHANGED notReadBucket

(***************************************************************************)
(* bufworkspace.newModuleTargeting                                         *)
(***************************************************************************)
\* normalpath.EqualsOrContainsPath(value, path, normalpath.Relative)
RECURSIVE EqualsOrContainsPath(_, _)
EqualsOrContainsPath(value, path) ==
    IF value = Root THEN TRUE
    ELSE IF path = Root THEN FALSE
    ELSE IF value = path THEN TRUE
    ELSE EqualsOrContainsPath(value, Dir(path))

\* normalpath.ContainsPath(dirPath, path, normalpath.Relative): path is in
\* dirPath and is not dirPath
ContainsPath(dirPath, path) ==
    IF dirPath = path THEN FALSE ELSE EqualsOrContainsPath(dirPath, Dir(path))

\* normalpath.Rel(basepath, targpath), for a targpath inside basepath
Rel(basepath, targpath) == SubSeq(targpath, Len(basepath) + 1, Len(targpath))

\* the empty string, as the value of an unset path
NoPath == <<"">>

\* applyRootsToTargetPath(roots, path, normalpath.Relative): the path relative
\* to the one root that contains it
applyRootsToTargetPath(roots, path) ==
    LET matchingRoots == SelectSeq(roots, LAMBDA root : ContainsPath(root, path)) IN
    IF Len(matchingRoots) = 0
    THEN [err |-> "path is not contained within any root", path |-> NoPath]
    ELSE IF Len(matchingRoots) = 1
    THEN [err |-> "", path |-> Rel(matchingRoots[1], path)]
    ELSE [err |-> "path is contained in multiple roots", path |-> NoPath]

\* the paths of the list that ContainsPath finds in the module directory, made
\* relative to it
RelPathsInModule(moduleDirPath, paths) ==
    LET contained == SelectSeq(paths, LAMBDA path : ContainsPath(moduleDirPath, path)) IN
    [i \in 1..Len(contained) |-> Rel(moduleDirPath, contained[i])]

\* slicesext.MapError(paths, applyRootsToTargetPath): the first error, or the
\* mapped list
MapApplyRoots(roots, paths) ==
    LET mapped == [i \in 1..Len(paths) |-> applyRootsToTargetPath(roots, paths[i])] IN
    IF \E i \in 1..Len(paths) : mapped[i].err # ""
    THEN [err |-> mapped[CHOOSE i \in 1..Len(paths) :
                            /\ mapped[i].err # ""
                            /\ \A j \in 1..(i - 1) : mapped[j].err = ""].err,
          paths |-> <<>>]
    ELSE [err |-> "", paths |-> [i \in 1..Len(paths) |-> mapped[i].path]]

\* &moduleTargeting{...}, nil
ModuleTargeting(isTarget, targetPaths, excludePaths, protoFilePath, packageFiles) ==
    [err |-> "",
     isTargetModule |-> isTarget,
     moduleTargetPaths |-> targetPaths,
     moduleTargetExcludePaths |-> excludePaths,
     moduleProtoFileTargetPath |-> protoFilePath,
     includePackageFiles |-> packageFiles]

\* nil, err
ModuleTargetingError(err) ==
    [err |-> err,
     isTargetModule |-> FALSE,
     moduleTargetPaths |-> <<>>,
     moduleTargetExcludePaths |-> <<>>,
     moduleProtoFileTargetPath |-> NoPath,
     includePackageFiles |-> FALSE]

\* newModuleTargeting once no --path and no --exclude-path names the module
\* directory itself; isTargetModule starts from the value given
newModuleTargetingPaths(moduleDirPath, roots, cfg, isTarget) ==
    LET targetPaths == MapApplyRoots(roots, RelPathsInModule(moduleDirPath, cfg.targetPaths))
        excludePaths ==
            MapApplyRoots(roots, RelPathsInModule(moduleDirPath, cfg.targetExcludePaths))
        protoFileInModule ==
            /\ cfg.protoFileTargetPath # NoPath
            /\ ContainsPath(moduleDirPath, cfg.protoFileTargetPath)
        protoFilePath ==
            IF protoFileInModule
            THEN applyRootsToTargetPath(roots, Rel(moduleDirPath, cfg.protoFileTargetPath))
            ELSE [err |-> "", path |-> NoPath]
    IN
    IF targetPaths.err # "" THEN ModuleTargetingError(targetPaths.err)
    ELSE IF excludePaths.err # "" THEN ModuleTargetingError(excludePaths.err)
    ELSE IF protoFilePath.err # "" THEN ModuleTargetingError(protoFilePath.err)
    ELSE ModuleTargeting(
            \/ isTarget
            \/ \E i \in 1..Len(cfg.targetPaths) : ContainsPath(moduleDirPath, cfg.targetPaths[i])
            \/ protoFileInModule,
            targetPaths.paths,
            excludePaths.paths,
            protoFilePath.path,
            protoFileInModule /\ cfg.includePackageFiles)

\* a tentatively targeted module is a target module whatever the paths are
newModuleTargeting_TentativeIsTarget(moduleDirPath, roots, cfg, isTentativelyTargetModule) ==
    IF ~isTentativelyTargetModule
    THEN ModuleTargeting(FALSE, <<>>, <<>>, NoPath, FALSE)
    ELSE IF \E i \in 1..Len(cfg.targetPaths) : cfg.targetPaths[i] = moduleDirPath
    THEN ModuleTargetingError("module was specified with --path")
    ELSE IF \E i \in 1..Len(cfg.targetExcludePaths) : cfg.targetExcludePaths[i] = moduleDirPath
    THEN ModuleTargetingError("module was specified with --exclude-path")
    ELSE newModuleTargetingPaths(moduleDirPath, roots, cfg, TRUE)

\* newModuleTargeting(moduleDirPath, roots, config, isTentativelyTargetModule)
newModuleTargeting(moduleDirPath, roots, cfg, isTentativelyTargetModule) ==
    IF ~isTentativelyTargetModule
    THEN ModuleTargeting(FALSE, <<>>, <<>>, NoPath, FALSE)
    ELSE IF \E i \in 1..Len(cfg.targetPaths) : cfg.targetPaths[i] = moduleDirPath
    THEN ModuleTargetingError("module was specified with --path")
    ELSE IF \E i \in 1..Len(cfg.targetExcludePaths) : cfg.targetExcludePaths[i] = moduleDirPath
    THEN ModuleTargetingError("module was specified with --exclude-path")
    ELSE newModuleTargetingPaths(moduleDirPath, roots, cfg,
            Len(cfg.targetPaths) = 0 /\ cfg.protoFileTargetPath = NoPath)

\* the directories a module can be in
ModuleDirPaths == UNION {PathsOfDepth(n) : n \in 0..(MaxDepth - 1)}

\* the roots of a module: "." (every buf.yaml but v1beta1), or one directory
RootLists == {<<Root>>, <<(<<"a">>)>>}

\* the workspaceBucketConfigs: up to two --path, up to one --exclude-path, and
\* possibly the path of a .proto file, with or without its package's files
WorkspaceBucketConfigs ==
    {cfg \in [targetPaths : {<<>>} \cup {<<p>> : p \in Paths} \cup {<<p, q>> : p, q \in Paths},
              targetExcludePaths : {<<>>} \cup {<<p>> : p \in Paths},
              protoFileTargetPath : {NoPath} \cup PathsOfDepth(MaxDepth),
              includePackageFiles : BOOLEAN] :
        cfg.includePackageFiles => cfg.protoFileTargetPath # NoPath}

NoModuleTargeting ==
    [moduleDirPath |-> Root, roots |-> <<>>, isTentativelyTargetModule |-> FALSE,
     called |-> FALSE, result |-> ModuleTargetingError("")]

IdleModuleTargeting ==
    /\ config = [targetPaths |-> <<>>, targetExcludePaths |-> <<>>,
                 protoFileTargetPath |-> NoPath, includePackageFiles |-> FALSE]
    /\ moduleTargeting = NoModuleTargeting

\* the workspace code calls newModuleTargeting for a module of the workspace
NewModuleTargeting(moduleDirPath, roots, isTentativelyTargetModule) ==
    /\ ~moduleTargeting.called
    /\ moduleTargeting' =
         [moduleDirPath |-> moduleDirPath, roots |-> roots,
          isTentativelyTargetModule |-> isTentativelyTargetModule,
          called |-> TRUE,
          result |-> newModuleTargeting(moduleDirPath, roots, config,
                                        isTentativelyTargetModule)]
    /\ UNCHANGED config
    /\ UNCHANGED notModuleTargeting

(***************************************************************************)
(* bufworkspace.workspaceProvider                                          *)
(***************************************************************************)
\* the lint config and the breaking config that the configuration named id holds
LintConfig(id) == <<"lint", id>>
BreakingConfig(id) == <<"breaking", id>>

\* bufconfig.DefaultLintConfig, bufconfig.DefaultBreakingConfig
DefaultLintConfig == LintConfig("default")
DefaultBreakingConfig == BreakingConfig("default")

\* a bufconfig.ModuleConfig; moduleFullName "" is a nil ModuleFullName
ModuleConfig(dirPath, moduleFullName, id) ==
    [dirPath |-> dirPath,
     moduleFullName |-> moduleFullName,
     lintConfig |-> LintConfig(id),
     breakingConfig |-> BreakingConfig(id),
     roots |-> <<Root>>]

\* bufconfig.DefaultModuleConfig
DefaultModuleConfig == ModuleConfig(Root, "", "default")

\* a bufmodule.ModuleRef of the deps of a buf.yaml
ModuleRef(moduleFullName, ref) == [moduleFullName |-> moduleFullName, ref |-> ref]

\* ModuleRef.String()
ModuleRefString(moduleRef) == <<moduleRef.moduleFullName, moduleRef.ref>>

\* a bufconfig.BufYAMLFile
BufYAMLFile(fileVersion, moduleConfigs, configuredDepModuleRefs) ==
    [fileVersion |-> fileVersion,
     moduleConfigs |-> moduleConfigs,
     configuredDepModuleRefs |-> configuredDepModuleRefs]

NoBufYAMLFile == BufYAMLFile("", <<>>, <<>>)

\* what reading a file gives: the file, fs.ErrNotExist, or another error
FileRead(file) == [status |-> "ok", file |-> file]
FileNotExist(none) == [status |-> "notExist", file |-> none]
FileReadError(none) == [status |-> "error", file |-> none]

\* a bufconfig.BufLockFile: its version, and the module names of its DepModuleKeys
BufLockFile(fileVersion, depModuleKeys) ==
    [fileVersion |-> fileVersion, depModuleKeys |-> depModuleKeys]

NoBufLockFile == BufLockFile("", <<>>)

\* the directories of the buckets: ".", "a", "b" and "a/a"
DirA == <<"a">>
DirB == <<"b">>
DirAA == <<"a", "a">>

\* the lists of deps a buf.yaml declares: on no module, or on module "dep"
\* at one of two refs
ConfiguredDepModuleRefLists ==
    {<<>>, <<ModuleRef("dep", "r1")>>, <<ModuleRef("dep", "r2")>>}

\* the buf.yaml files of a v1beta1 or v1 module directory: one module config
\* with its own lint and breaking config or with the default one
BufYAMLFilesV1 ==
    {BufYAMLFile("v1", <<ModuleConfig(Root, "", id)>>, refs) :
        id \in {"default", "buf.yaml"}, refs \in ConfiguredDepModuleRefLists}

\* the lists of module directories of a workspace
ModuleDirPathLists == {<<Root>>, <<DirA>>, <<DirA, DirB>>}

\* the v2 buf.yaml files: a module config for every directory of a list
BufYAMLFilesV2 ==
    {BufYAMLFile("v2",
                 [i \in 1..Len(dirs) |-> ModuleConfig(dirs[i], "", ids[i])],
                 refs) :
        dirs \in ModuleDirPathLists,
        ids \in {<<"default", "default">>, <<"buf.yaml", "default">>, <<"default", "buf.yaml">>},
        refs \in {<<>>, <<ModuleRef("dep", "r1")>>}}

\* what is read at a directory: buf.yaml and buf.lock
BufYAMLReads(files) ==
    {FileNotExist(NoBufYAMLFile), FileReadError(NoBufYAMLFile)} \cup {FileRead(f) : f \in files}

BufLockReads ==
    {FileNotExist(NoBufLockFile), FileReadError(NoBufLockFile),
     FileRead(BufLockFile("v1", <<"dep">>)), FileRead(BufLockFile("v2", <<"dep">>))}

\* --config: not given, not readable, or a buf.yaml with its own lint and
\* breaking config
ConfigOverrides(fileVersion) ==
    {FileNotExist(NoBufYAMLFile), FileReadError(NoBufYAMLFile),
     FileRead(BufYAMLFile(fileVersion, <<ModuleConfig(Root, "", "override")>>,
                          <<ModuleRef("dep", "r1")>>))}

\* the workspaceBucketConfigs of the bucket workspaces
TargetSubDirPaths == {Root, DirA, DirB}

BucketConfigs ==
    [targetSubDirPath : TargetSubDirPaths,
     targetPaths : {<<>>, <<DirA>>, <<DirAA>>, <<DirB>>, <<DirB, DirAA>>},
     targetExcludePaths : {<<>>, <<DirA>>},
     protoFileTargetPath : {NoPath},
     includePackageFiles : {FALSE}]

\* the errors of the workspace provider
ErrNoTargetProtoFiles == "no .proto target files found"
ErrDifferentRefs == "found different refs for the same module within buf.yaml deps in the workspace"
ErrV1LockForV2 == "got a v1 buf.lock file for a v2 buf.yaml"
ErrV2LockForV1 == "got a v2 buf.lock file for a v1 buf.yaml"
ErrRead == "read error"
ErrBuild == "ModuleSetBuilder.Build failed"
SysNoTargetModules == "syserror: subDirPath did not result in any target modules"
SysNotV1 == "syserror: buf.yaml did not have version v1beta1 or v1"
SysNotOneModuleConfig == "syserror: received other than 1 ModuleConfigs from a v1beta1 or v1 BufYAMLFile"
SysGetV2 == "syserror: error getting v2 buf.yaml"
SysNotV2 == "syserror: expected v2 buf.yaml"
SysUnknownFileVersion == "syserror: unknown FileVersion"
SysNoModuleConfig == "syserror: could not get ModuleConfig for BucketID"
SysZeroModuleConfigs == "syserror: had BufYAMLFile with 0 ModuleConfigs"

\* syserror.New, syserror.Newf
SystemErrors ==
    {SysNoTargetModules, SysNotV1, SysNotOneModuleConfig, SysGetV2, SysNotV2,
     SysUnknownFileVersion, SysNoModuleConfig, SysZeroModuleConfigs}

\* the errors of newModuleTargeting for a --path or an --exclude-path that is
\* the directory of the module
ModuleSpecifiedErrors ==
    {"module was specified with --path", "module was specified with --exclude-path"}

\* a bufmodule.Module of a ModuleSet; bucketID NoPath is the empty BucketID
\* of a remote module
Module(bucketID, moduleFullName, isTarget) ==
    [bucketID |-> bucketID, moduleFullName |-> moduleFullName, isTargetModule |-> isTarget]

\* bufmodule.NewModuleSetBuilder
NewModuleSetBuilder == [localModules |-> <<>>, remoteModules |-> <<>>, built |-> FALSE]

\* moduleSetBuilder.AddLocalModule(bucket, bucketID, isTarget, options...)
AddLocalModule(builder, bucketID, moduleFullName, isTarget) ==
    [builder EXCEPT !.localModules = Append(@, Module(bucketID, moduleFullName, isTarget))]

\* moduleSetBuilder.AddRemoteModule(moduleKey, isTarget) for every key of a list
RECURSIVE AddRemoteModules(_, _, _)
AddRemoteModules(builder, depModuleKeys, isTarget) ==
    IF depModuleKeys = <<>> THEN builder
    ELSE AddRemoteModules(
            [builder EXCEPT !.remoteModules = Append(@, Module(NoPath, Head(depModuleKeys), isTarget))],
            Tail(depModuleKeys), isTarget)

\* the modules of a list without the later ones of the same name
RECURSIVE UniqueByModuleFullName(_)
UniqueByModuleFullName(modules) ==
    IF modules = <<>> THEN <<>>
    ELSE LET front == UniqueByModuleFullName(SubSeq(modules, 1, Len(modules) - 1))
             last == modules[Len(modules)]
         IN IF \E i \in 1..Len(front) : front[i].moduleFullName = last.moduleFullName
            THEN front ELSE Append(front, last)

\* the ModuleSet of moduleSetBuilder.Build(): the local modules, then the
\* remote modules, each once
BuildModuleSet(builder) ==
    builder.localModules \o UniqueByModuleFullName(builder.remoteModules)

\* newWorkspace(moduleSet, opaqueIDToLintConfig, opaqueIDToBreakingConfig,
\* configuredDepModuleRefs, isV2); the configs are indexed as the modules are
newWorkspace(moduleSet, opaqueIDToLintConfig, opaqueIDToBreakingConfig, refs, isV2) ==
    [nil |-> FALSE,
     moduleSet |-> moduleSet,
     opaqueIDToLintConfig |-> opaqueIDToLintConfig,
     opaqueIDToBreakingConfig |-> opaqueIDToBreakingConfig,
     configuredDepModuleRefs |-> refs,
     isV2 |-> isV2]

\* a nil Workspace
NoWorkspace ==
    [nil |-> TRUE, moduleSet |-> <<>>, opaqueIDToLintConfig |-> <<>>,
     opaqueIDToBreakingConfig |-> <<>>, configuredDepModuleRefs |-> <<>>, isV2 |-> FALSE]

\* what GetWorkspaceForBucket or GetWorkspaceForModuleKey returned
WorkspaceReturned(workspace, err) == [returned |-> TRUE, workspace |-> workspace, err |-> err]
NothingReturned == [returned |-> FALSE, workspace |-> NoWorkspace, err |-> ""]

\* the local variables of a workspace resolution before its loop
NewResolution(pc) ==
    [pc |-> pc,
     i |-> 1,
     moduleSetBuilder |-> NewModuleSetBuilder,
     bucketIDToModuleConfig |-> <<>>,
     moduleFullNameStringToConfiguredDepModuleRefString |-> <<>>,
     allConfiguredDepModuleRefs |-> <<>>,
     hadIsTentativelyTargetModule |-> FALSE,
     hadIsTargetModule |-> FALSE,
     bufYAMLFile |-> NoBufYAMLFile]

NoRemoteModule == [moduleFullName |-> "", moduleSetErr |-> "", depModuleFullNames |-> <<>>]
NoWorkspaceTargeting == [isV2 |-> FALSE, v1DirPaths |-> <<>>]
NoBucketConfig ==
    [targetSubDirPath |-> Root, targetPaths |-> <<>>, targetExcludePaths |-> <<>>,
     protoFileTargetPath |-> NoPath, includePackageFiles |-> FALSE]

IdleWorkspace ==
    /\ bucketConfig = NoBucketConfig
    /\ configOverride = FileNotExist(NoBufYAMLFile)
    /\ workspaceTargeting = NoWorkspaceTargeting
    /\ bucketFiles = <<>>
    /\ remoteModule = NoRemoteModule
    /\ resolution = NewResolution("idle")
    /\ workspaceResult = NothingReturned

\* the return of an error
WsReturnError(err) ==
    /\ workspaceResult' = WorkspaceReturned(NoWorkspace, err)
    /\ resolution' = [resolution EXCEPT !.pc = "done"]

WsInputUnchanged ==
    UNCHANGED <<bucketConfig, configOverride, workspaceTargeting, bucketFiles, remoteModule>>

\* getModuleConfigAndConfiguredDepModuleRefsV1Beta1OrV1(ctx, bucket,
\* moduleDirPath, overrideBufYAMLFile)
getModuleConfigAndConfiguredDepModuleRefsV1Beta1OrV1(moduleDirPath, overrideBufYAMLFile) ==
    LET read == IF overrideBufYAMLFile.status = "ok"
                THEN overrideBufYAMLFile
                ELSE bucketFiles[moduleDirPath].bufYAML
        failed(err) == [err |-> err, moduleConfig |-> DefaultModuleConfig,
                        configuredDepModuleRefs |-> <<>>]
    IN
    IF read.status = "notExist"
    THEN [err |-> "", moduleConfig |-> DefaultModuleConfig, configuredDepModuleRefs |-> <<>>]
    ELSE IF read.status = "error" THEN failed(ErrRead)
    ELSE IF read.file.fileVersion \notin {"v1beta1", "v1"} THEN failed(SysNotV1)
    ELSE IF Len(read.file.moduleConfigs) # 1 THEN failed(SysNotOneModuleConfig)
    ELSE [err |-> "",
          moduleConfig |-> read.file.moduleConfigs[1],
          configuredDepModuleRefs |-> read.file.configuredDepModuleRefs]

\* a ref that differs from the one recorded for its name is dropped
RECURSIVE AddConfiguredDepModuleRefs_FirstWins(_, _, _)
AddConfiguredDepModuleRefs_FirstWins(refStrings, allRefs, configuredDepModuleRefs) ==
    IF configuredDepModuleRefs = <<>>
    THEN [err |-> "", refStrings |-> refStrings, allRefs |-> allRefs]
    ELSE LET configuredDepModuleRef == Head(configuredDepModuleRefs)
             moduleFullNameString == configuredDepModuleRef.moduleFullName
         IN
         IF moduleFullNameString \notin DOMAIN refStrings
         THEN AddConfiguredDepModuleRefs_FirstWins(
                (moduleFullNameString :> ModuleRefString(configuredDepModuleRef)) @@ refStrings,
                Append(allRefs, configuredDepModuleRef),
                Tail(configuredDepModuleRefs))
         ELSE AddConfiguredDepModuleRefs_FirstWins(refStrings, allRefs,
                                                   Tail(configuredDepModuleRefs))

\* the loop over the configuredDepModuleRefs of one buf.yaml: a ref of a new
\* name is added, a ref that differs from the one recorded for its name is an
\* error
RECURSIVE AddConfiguredDepModuleRefs(_, _, _)
AddConfiguredDepModuleRefs(refStrings, allRefs, configuredDepModuleRefs) ==
    IF configuredDepModuleRefs = <<>>
    THEN [err |-> "", refStrings |-> refStrings, allRefs |-> allRefs]
    ELSE LET configuredDepModuleRef == Head(configuredDepModuleRefs)
             moduleFullNameString == configuredDepModuleRef.moduleFullName
         IN
         IF moduleFullNameString \notin DOMAIN refStrings
         THEN AddConfiguredDepModuleRefs(
                (moduleFullNameString :> ModuleRefString(configuredDepModuleRef)) @@ refStrings,
                Append(allRefs, configuredDepModuleRef),
                Tail(configuredDepModuleRefs))
         ELSE IF ModuleRefString(configuredDepModuleRef) # refStrings[moduleFullNameString]
         THEN [err |-> ErrDifferentRefs, refStrings |-> refStrings, allRefs |-> allRefs]
         ELSE AddConfiguredDepModuleRefs(refStrings, allRefs, Tail(configuredDepModuleRefs))

\* the switch on the version of the buf.lock of a v1beta1 or v1 module
\* directory: the v2 case returns no error
CheckBufLockFileVersionV1Beta1OrV1(fileVersion) ==
    IF fileVersion \in {"v1beta1", "v1"} THEN ""
    ELSE IF fileVersion = "v2" THEN ""
    ELSE SysUnknownFileVersion

\* the switch on the version of the buf.lock next to a v2 buf.yaml
CheckBufLockFileVersionV2(fileVersion) ==
    IF fileVersion \in {"v1beta1", "v1"} THEN ErrV1LockForV2
    ELSE IF fileVersion = "v2" THEN ""
    ELSE SysUnknownFileVersion

\* the moduleTargeting is made without the check of the paths against the
\* module directory
getMappedModuleBucketAndModuleTargeting_NoModuleDirCheck(cfg, moduleDirPath, moduleConfig, isTarget) ==
    IF ~isTarget THEN ModuleTargeting(FALSE, <<>>, <<>>, NoPath, FALSE)
    ELSE newModuleTargetingPaths(moduleDirPath, moduleConfig.roots, cfg,
            Len(cfg.targetPaths) = 0 /\ cfg.protoFileTargetPath = NoPath)

\* getMappedModuleBucketAndModuleTargeting(ctx, bucket, config, moduleDirPath,
\* moduleConfig, isTargetModule): the moduleTargeting, or the error
getMappedModuleBucketAndModuleTargeting(cfg, moduleDirPath, moduleConfig, isTarget) ==
    newModuleTargeting(moduleDirPath, moduleConfig.roots, cfg, isTarget)

\* getWorkspaceForBucketModuleSet(moduleSet, bucketIDToModuleConfig,
\* configuredDepModuleRefs, isV2)
getWorkspaceForBucketModuleSet(moduleSet, bucketIDToModuleConfig, refs, isV2) ==
    IF \E i \in 1..Len(moduleSet) :
          /\ moduleSet[i].bucketID # NoPath
          /\ moduleSet[i].bucketID \notin DOMAIN bucketIDToModuleConfig
    THEN WorkspaceReturned(NoWorkspace, SysNoModuleConfig)
    ELSE WorkspaceReturned(
            newWorkspace(
                moduleSet,
                [i \in 1..Len(moduleSet) |->
                    IF moduleSet[i].bucketID # NoPath
                    THEN bucketIDToModuleConfig[moduleSet[i].bucketID].lintConfig
                    ELSE DefaultLintConfig],
                [i \in 1..Len(moduleSet) |->
                    IF moduleSet[i].bucketID # NoPath
                    THEN bucketIDToModuleConfig[moduleSet[i].bucketID].breakingConfig
                    ELSE DefaultBreakingConfig],
                refs, isV2),
            "")

\* GetWorkspaceForBucket: the config override is read, and the resolution
\* goes on as the workspaceTargeting says
GetWorkspaceForBucket ==
    /\ resolution.pc = "GetWorkspaceForBucket"
    /\ IF configOverride.status = "error"
       THEN WsReturnError(ErrRead)
       ELSE /\ resolution' = NewResolution(IF workspaceTargeting.isV2 THEN "v2" ELSE "v1 loop")
            /\ UNCHANGED workspaceResult
    /\ WsInputUnchanged
    /\ UNCHANGED notWorkspace

\* getWorkspaceForBucketAndModuleDirPathsV1Beta1OrV1: the body of the loop
\* over moduleDirPaths, for the next module directory
V1ModuleDirPath ==
    /\ resolution.pc = "v1 loop"
    /\ resolution.i <= Len(workspaceTargeting.v1DirPaths)
    /\ \E objectDataErr \in BOOLEAN :
        LET moduleDirPath == workspaceTargeting.v1DirPaths[resolution.i]
            got == getModuleConfigAndConfiguredDepModuleRefsV1Beta1OrV1(
                       moduleDirPath, configOverride)
            added == AddConfiguredDepModuleRefs(
                       resolution.moduleFullNameStringToConfiguredDepModuleRefString,
                       resolution.allConfiguredDepModuleRefs,
                       got.configuredDepModuleRefs)
            bufLock == bucketFiles[moduleDirPath].bufLock
            lockErr == IF bufLock.status = "error" THEN ErrRead
                       ELSE IF bufLock.status = "notExist" THEN ""
                       ELSE CheckBufLockFileVersionV1Beta1OrV1(bufLock.file.fileVersion)
            isTentativelyTargetModule ==
                EqualsOrContainsPath(bucketConfig.targetSubDirPath, moduleDirPath)
            targeting == getMappedModuleBucketAndModuleTargeting(
                            bucketConfig, moduleDirPath, got.moduleConfig,
                            isTentativelyTargetModule)
            withRemotes == IF bufLock.status = "ok"
                           THEN AddRemoteModules(resolution.moduleSetBuilder,
                                                 bufLock.file.depModuleKeys, FALSE)
                           ELSE resolution.moduleSetBuilder
        IN
        IF got.err # "" THEN WsReturnError(got.err)
        ELSE IF added.err # "" THEN WsReturnError(added.err)
        ELSE IF lockErr # "" THEN WsReturnError(lockErr)
        ELSE IF targeting.err # "" THEN WsReturnError(targeting.err)
        ELSE IF objectDataErr THEN WsReturnError(ErrRead)
        ELSE /\ resolution' =
                  [resolution EXCEPT
                     !.i = @ + 1,
                     !.moduleFullNameStringToConfiguredDepModuleRefString = added.refStrings,
                     !.allConfiguredDepModuleRefs = added.allRefs,
                     !.bucketIDToModuleConfig = (moduleDirPath :> got.moduleConfig) @@ @,
                     !.hadIsTentativelyTargetModule = @ \/ isTentativelyTargetModule,
                     !.hadIsTargetModule = @ \/ targeting.isTargetModule,
                     !.moduleSetBuilder =
                         AddLocalModule(withRemotes, moduleDirPath,
                                        got.moduleConfig.moduleFullName,
                                        targeting.isTargetModule)]
             /\ UNCHANGED workspaceResult
    /\ WsInputUnchanged
    /\ UNCHANGED notWorkspace

\* moduleSetBuilder.Build() is called without the two checks
AfterModulesLoop_NoChecks(refs, isV2) ==
    \E buildErr \in {"", ErrBuild} :
        /\ resolution' = [resolution EXCEPT !.pc = "done", !.moduleSetBuilder.built = TRUE]
        /\ workspaceResult' =
             IF buildErr # "" THEN WorkspaceReturned(NoWorkspace, buildErr)
             ELSE getWorkspaceForBucketModuleSet(
                    BuildModuleSet(resolution.moduleSetBuilder),
                    resolution.bucketIDToModuleConfig, refs, isV2)

\* what follows the loop over the modules: the two checks, then
\* moduleSetBuilder.Build() and getWorkspaceForBucketModuleSet
AfterModulesLoop(refs, isV2) ==
    IF ~resolution.hadIsTentativelyTargetModule THEN WsReturnError(SysNoTargetModules)
    ELSE IF ~resolution.hadIsTargetModule THEN WsReturnError(ErrNoTargetProtoFiles)
    ELSE \E buildErr \in {"", ErrBuild} :
            /\ resolution' = [resolution EXCEPT !.pc = "done", !.moduleSetBuilder.built = TRUE]
            /\ workspaceResult' =
                 IF buildErr # "" THEN WorkspaceReturned(NoWorkspace, buildErr)
                 ELSE getWorkspaceForBucketModuleSet(
                        BuildModuleSet(resolution.moduleSetBuilder),
                        resolution.bucketIDToModuleConfig, refs, isV2)

\* getWorkspaceForBucketAndModuleDirPathsV1Beta1OrV1 after its loop
V1AfterLoop ==
    /\ resolution.pc = "v1 loop"
    /\ resolution.i > Len(workspaceTargeting.v1DirPaths)
    /\ AfterModulesLoop(resolution.allConfiguredDepModuleRefs, FALSE)
    /\ WsInputUnchanged
    /\ UNCHANGED notWorkspace

\* getWorkspaceForBucketBufYAMLV2 up to its loop: the buf.yaml and the
\* buf.lock of the workspace directory
V2BufYAMLAndBufLock ==
    /\ resolution.pc = "v2"
    /\ LET read == bucketFiles[Root].bufYAML
           yamlErr == IF configOverride.status = "ok" THEN ""
                      ELSE IF read.status # "ok" THEN SysGetV2
                      ELSE IF read.file.fileVersion # "v2" THEN SysNotV2
                      ELSE ""
           bufYAMLFile == IF configOverride.status = "ok" THEN configOverride.file
                          ELSE read.file
           bufLock == bucketFiles[Root].bufLock
           lockErr == IF bufLock.status = "error" THEN ErrRead
                      ELSE IF bufLock.status = "notExist" THEN ""
                      ELSE CheckBufLockFileVersionV2(bufLock.file.fileVersion)
       IN
       IF yamlErr # "" THEN WsReturnError(yamlErr)
       ELSE IF lockErr # "" THEN WsReturnError(lockErr)
       ELSE /\ resolution' =
                 [resolution EXCEPT
                    !.pc = "v2 loop",
                    !.bufYAMLFile = bufYAMLFile,
                    !.moduleSetBuilder =
                        IF bufLock.status = "ok"
                        THEN AddRemoteModules(@, bufLock.file.depModuleKeys, FALSE)
                        ELSE @]
            /\ UNCHANGED workspaceResult
    /\ WsInputUnchanged
    /\ UNCHANGED notWorkspace

\* getWorkspaceForBucketBufYAMLV2: the body of the loop over
\* bufYAMLFile.ModuleConfigs(), for the next module config
V2ModuleConfig ==
    /\ resolution.pc = "v2 loop"
    /\ resolution.i <= Len(resolution.bufYAMLFile.moduleConfigs)
    /\ LET moduleConfig == resolution.bufYAMLFile.moduleConfigs[resolution.i]
           moduleDirPath == moduleConfig.dirPath
           isTentativelyTargetModule ==
               EqualsOrContainsPath(bucketConfig.targetSubDirPath, moduleDirPath)
           targeting == getMappedModuleBucketAndModuleTargeting(
                           bucketConfig, moduleDirPath, moduleConfig,
                           isTentativelyTargetModule)
       IN
       IF targeting.err # "" THEN WsReturnError(targeting.err)
       ELSE /\ resolution' =
                 [resolution EXCEPT
                    !.i = @ + 1,
                    !.bucketIDToModuleConfig = (moduleDirPath :> moduleConfig) @@ @,
                    !.hadIsTentativelyTargetModule = @ \/ isTentativelyTargetModule,
                    !.hadIsTargetModule = @ \/ targeting.isTargetModule,
                    !.moduleSetBuilder =
                        AddLocalModule(@, moduleDirPath, moduleConfig.moduleFullName,
                                       targeting.isTargetModule)]
            /\ UNCHANGED workspaceResult
    /\ WsInputUnchanged
    /\ UNCHANGED notWorkspace

\* getWorkspaceForBucketBufYAMLV2 after its loop
V2AfterLoop ==
    /\ resolution.pc = "v2 loop"
    /\ resolution.i > Len(resolution.bufYAMLFile.moduleConfigs)
    /\ AfterModulesLoop(resolution.bufYAMLFile.configuredDepModuleRefs, TRUE)
    /\ WsInputUnchanged
    /\ UNCHANGED notWorkspace

\* a single module config is given to the target module only if it has the
\* name of the ModuleKey
TargetModuleConfig_ByNameOnly(moduleConfigs, moduleFullName) ==
    IF \E i \in 1..Len(moduleConfigs) : moduleConfigs[i].moduleFullName = moduleFullName
    THEN moduleConfigs[CHOOSE i \in 1..Len(moduleConfigs) :
            moduleConfigs[i].moduleFullName = moduleFullName]
    ELSE DefaultModuleConfig

\* the module config of a config override that GetWorkspaceForModuleKey gives
\* to the target module
TargetModuleConfig(moduleConfigs, moduleFullName) ==
    IF Len(moduleConfigs) = 1 THEN moduleConfigs[1]
    ELSE IF \E i \in 1..Len(moduleConfigs) :
               /\ moduleConfigs[i].moduleFullName # ""
               /\ moduleConfigs[i].moduleFullName = moduleFullName
    THEN moduleConfigs[CHOOSE i \in 1..Len(moduleConfigs) :
            /\ moduleConfigs[i].moduleFullName # ""
            /\ moduleConfigs[i].moduleFullName = moduleFullName
            /\ \A j \in 1..(i - 1) :
                  \/ moduleConfigs[j].moduleFullName = ""
                  \/ moduleConfigs[j].moduleFullName # moduleFullName]
    ELSE DefaultModuleConfig

\* the ModuleSet of bufmodule.NewModuleSetForRemoteModule: the module of the
\* ModuleKey, which is the target, and its dependencies
NewModuleSetForRemoteModule(moduleFullName, depModuleFullNames) ==
    <<Module(NoPath, moduleFullName, TRUE)>>
        \o [i \in 1..Len(depModuleFullNames) |-> Module(NoPath, depModuleFullNames[i], FALSE)]

\* GetWorkspaceForModuleKey(ctx, moduleKey, options...)
GetWorkspaceForModuleKey ==
    /\ resolution.pc = "GetWorkspaceForModuleKey"
    /\ resolution' = [resolution EXCEPT !.pc = "done"]
    /\ LET moduleConfigs == configOverride.file.moduleConfigs
           targetModuleConfig ==
               IF configOverride.status = "notExist" THEN DefaultModuleConfig
               ELSE TargetModuleConfig(moduleConfigs, remoteModule.moduleFullName)
           moduleSet == NewModuleSetForRemoteModule(remoteModule.moduleFullName,
                                                    remoteModule.depModuleFullNames)
           isKeyModule(module) == module.moduleFullName = remoteModule.moduleFullName
       IN
       workspaceResult' =
         IF configOverride.status = "error" THEN WorkspaceReturned(NoWorkspace, ErrRead)
         ELSE IF configOverride.status = "ok" /\ Len(moduleConfigs) = 0
         THEN WorkspaceReturned(NoWorkspace, SysZeroModuleConfigs)
         ELSE IF remoteModule.moduleSetErr # ""
         THEN WorkspaceReturned(NoWorkspace, remoteModule.moduleSetErr)
         ELSE WorkspaceReturned(
                newWorkspace(
                    moduleSet,
                    [i \in 1..Len(moduleSet) |->
                        IF isKeyModule(moduleSet[i]) THEN targetModuleConfig.lintConfig
                        ELSE DefaultLintConfig],
                    [i \in 1..Len(moduleSet) |->
                        IF isKeyModule(moduleSet[i]) THEN targetModuleConfig.breakingConfig
                        ELSE DefaultBreakingConfig],
                    <<>>, FALSE),
                "")
    /\ WsInputUnchanged
    /\ UNCHANGED notWorkspace

\* the names of the module configs of a config override; "" is no name
OverrideModuleFullNames == {"", "m1", "m2"}

\* what names the configuration of the i-th module config of a config override
OverrideIDs == <<"override1", "override2", "override3", "override4">>

\* the config overrides of GetWorkspaceForModuleKey: a buf.yaml with up to
\* MaxModuleConfigs module configs, whose names are unique
ModuleKeyConfigOverrides ==
    {FileNotExist(NoBufYAMLFile), FileReadError(NoBufYAMLFile)} \cup
    {FileRead(BufYAMLFile("v2",
                          [i \in 1..Len(names) |-> ModuleConfig(Root, names[i], OverrideIDs[i])],
                          <<>>)) :
        names \in {ns \in UNION {[1..n -> OverrideModuleFullNames] : n \in 0..MaxModuleConfigs} :
                     \A i, j \in 1..Len(ns) : (ns[i] # "" /\ ns[i] = ns[j]) => i = j}}

\* the remote modules of GetWorkspaceForModuleKey: module "m1" with up to two
\* dependencies, whose ModuleSet is built or not
RemoteModules ==
    [moduleFullName : {"m1"},
     moduleSetErr : {"", "NewModuleSetForRemoteModule failed"},
     depModuleFullNames : {<<>>, <<"m2">>, <<"m2", "dep">>}]

(***************************************************************************)
(* bufmoduleapi.Upload                                                     *)
(***************************************************************************)
\* the OpaqueIDs of the modules: x and y are uploaded, z is a dependency only
UploadOpaqueIDs == {"x", "y", "z"}

\* a nil ModuleFullName, and the ModuleFullName of a module in a registry
NoModuleFullName == [registry |-> "", owner |-> "", name |-> ""]
ModuleFullName(registry, opaqueID) == [registry |-> registry, owner |-> "acme", name |-> opaqueID]

\* a nil commit ID, and the commit ID of a remote module
NilCommitID == <<>>
CommitIDOf(opaqueID) == <<"commit of", opaqueID>>

\* what a module is, dependencies apart: a local module has a nil commit ID,
\* and any module may lack a ModuleFullName
UploadModuleAttributes ==
    {a \in [isLocal : BOOLEAN, hasModuleFullName : BOOLEAN,
            registry : {"buf.build", "buf.example.com"}, hasCommitID : BOOLEAN] :
        /\ a.isLocal => ~a.hasCommitID
        /\ ~a.hasModuleFullName => a.registry = "buf.build"}

\* the bufmodule.Module of an OpaqueID as a dependency
DepModule(opaqueID, attributes) ==
    [opaqueID |-> opaqueID,
     isLocal |-> attributes[opaqueID].isLocal,
     moduleFullName |->
        IF attributes[opaqueID].hasModuleFullName
        THEN ModuleFullName(attributes[opaqueID].registry, opaqueID)
        ELSE NoModuleFullName,
     commitID |-> IF attributes[opaqueID].hasCommitID THEN CommitIDOf(opaqueID) ELSE NilCommitID]

\* the bufmodule.Module of an OpaqueID, with its Module.ModuleDeps(): the
\* transitive dependencies, sorted by OpaqueID
UploadModule(opaqueID, attributes, deps) ==
    [opaqueID |-> opaqueID,
     isLocal |-> attributes[opaqueID].isLocal,
     moduleFullName |-> DepModule(opaqueID, attributes).moduleFullName,
     commitID |-> DepModule(opaqueID, attributes).commitID,
     moduleDeps |-> [i \in 1..Len(deps[opaqueID]) |-> DepModule(deps[opaqueID][i], attributes)]]

\* the dependencies of the modules: y and z can be dependencies of x, z of y,
\* and the dependencies of a dependency of x are dependencies of x
UploadModuleDeps ==
    {deps \in [UploadOpaqueIDs -> {<<>>, <<"y">>, <<"z">>, <<"y", "z">>}] :
        /\ deps["z"] = <<>>
        /\ deps["y"] \in {<<>>, <<"z">>}
        /\ ("y" \in Range(deps["x"]) /\ deps["y"] = <<"z">>) => "z" \in Range(deps["x"])}

\* the lists of modules given to Upload
UploadOpaqueIDLists == {<<>>, <<"x">>, <<"x", "y">>, <<"y", "x">>}

\* the errors of Upload
UploadError(kind, opaqueID) == [kind |-> kind, opaqueID |-> opaqueID]
NoUploadError == UploadError("", "")
ErrNonLocalModule(module) == UploadError("syserror: non-local module attempted to be uploaded", module.opaqueID)
ErrMultipleRegistries == UploadError("multiple registries detected", "")
ErrPanic == UploadError("panic: index out of range", "")
ErrExpectedCommits == UploadError("expected another number of Commits", "")

\* newRequireModuleFullNameOnUploadError(module)
newRequireModuleFullNameOnUploadError(module) ==
    UploadError("A name must be specified in buf.yaml for module for push.", module.opaqueID)

\* the first element of a sequence of results that holds an error, or no error
RECURSIVE FirstError(_)
FirstError(results) ==
    IF results = <<>> THEN NoUploadError
    ELSE IF Head(results).err # NoUploadError THEN Head(results).err
    ELSE FirstError(Tail(results))

\* the first loop of Upload: every module is local and has a ModuleFullName
CheckUploadModules(modules) ==
    FirstError([i \in 1..Len(modules) |->
        [err |-> IF ~modules[i].isLocal THEN ErrNonLocalModule(modules[i])
                 ELSE IF modules[i].moduleFullName = NoModuleFullName
                 THEN newRequireModuleFullNameOnUploadError(modules[i])
                 ELSE NoUploadError]])

\* the registry of the first module only
Registries_FirstModule(modules) ==
    IF modules = <<>> THEN {} ELSE {modules[1].moduleFullName.registry}

\* the keys of registryMap
Registries(modules) == {modules[i].moduleFullName.registry : i \in 1..Len(modules)}

\* getProtoModuleRef(module): owner and name, without the registry
getProtoModuleRef(module) ==
    IF module.moduleFullName = NoModuleFullName
    THEN [err |-> UploadError("syserror: module did not have a ModuleFullName", module.opaqueID),
          moduleRef |-> <<>>]
    ELSE [err |-> NoUploadError,
          moduleRef |-> <<module.moduleFullName.owner, module.moduleFullName.name>>]

\* a dep ref never has a commit ID
DepRef_NoCommitID(moduleRef, commitID) == [moduleRef |-> moduleRef, commitID |-> NilCommitID]

\* an UploadRequest_DepRef
DepRef(moduleRef, commitID) == [moduleRef |-> moduleRef, commitID |-> commitID]

\* the loop of getProtoUploadRequestContent over moduleDeps
RECURSIVE getProtoDepRefs(_, _, _)
getProtoDepRefs(uploadedModuleOpaqueIDs, moduleDeps, protoDepRefs) ==
    IF moduleDeps = <<>> THEN [err |-> NoUploadError, protoDepRefs |-> protoDepRefs]
    ELSE LET moduleDep == Head(moduleDeps)
             depProtoModuleRef == getProtoModuleRef(moduleDep)
             failed(err) == [err |-> err, protoDepRefs |-> <<>>]
         IN
         IF moduleDep.moduleFullName = NoModuleFullName
         THEN failed(newRequireModuleFullNameOnUploadError(moduleDep))
         ELSE IF depProtoModuleRef.err # NoUploadError THEN failed(depProtoModuleRef.err)
         ELSE IF moduleDep.isLocal
         THEN IF moduleDep.opaqueID \notin uploadedModuleOpaqueIDs
              THEN failed(UploadError("syserror: local module dep not scheduled to be uploaded",
                                      moduleDep.opaqueID))
              ELSE getProtoDepRefs(uploadedModuleOpaqueIDs, Tail(moduleDeps),
                                   Append(protoDepRefs, DepRef(depProtoModuleRef.moduleRef, NilCommitID)))
         ELSE IF moduleDep.commitID = NilCommitID
              THEN failed(UploadError("syserror: did not have a commit ID for a remote module dependency",
                                      moduleDep.opaqueID))
              ELSE getProtoDepRefs(uploadedModuleOpaqueIDs, Tail(moduleDeps),
                                   Append(protoDepRefs,
                                          DepRef(depProtoModuleRef.moduleRef, moduleDep.commitID)))

\* getProtoUploadRequestContent(ctx, protoScopedLabelRefs,
\* uploadedModuleOpaqueIDs, module); readErr is the error of
\* module.ModuleDeps(), of the read of the files or of the object data
getProtoUploadRequestContent(uploadedModuleOpaqueIDs, module, readErr) ==
    LET protoModuleRef == getProtoModuleRef(module)
        depRefs == getProtoDepRefs(uploadedModuleOpaqueIDs, module.moduleDeps, <<>>)
        failed(err) == [err |-> err, moduleRef |-> <<>>, depRefs |-> <<>>]
    IN
    IF ~module.isLocal
    THEN failed(UploadError("syserror: expected local Module in getProtoUploadRequestContent", ""))
    ELSE IF module.moduleFullName = NoModuleFullName
    THEN failed(UploadError("syserror: A name must be specified in buf.yaml for module for push.",
                            module.opaqueID))
    ELSE IF protoModuleRef.err # NoUploadError THEN failed(protoModuleRef.err)
    ELSE IF readErr = "ModuleDeps" THEN failed(UploadError("ModuleDeps failed", ""))
    ELSE IF depRefs.err # NoUploadError THEN failed(depRefs.err)
    ELSE IF readErr # "" THEN failed(UploadError("read failed", ""))
    ELSE [err |-> NoUploadError, moduleRef |-> protoModuleRef.moduleRef,
          depRefs |-> depRefs.protoDepRefs]

\* the UploadResponses of the upload service for a request: an error, or any
\* number of commits, each with an ID that is a UUID or not and with a digest
UploadResponseCommits(n) ==
    UNION {[1..k -> [id : {"uuid", "no uuid"}, digest : {"digest"}]] : k \in 0..(n + 1)}

\* the ID and the digest of the i-th commit of a response
ResponseCommitID(i, protoCommit) == <<protoCommit.id, i>>
ResponseDigest(i, protoCommit) == <<protoCommit.digest, i>>

\* bufmodule.NewCommit(bufmodule.NewModuleKey(moduleFullName, commitID, digest))
NewCommit(moduleFullName, commitID, digest) ==
    [moduleFullName |-> moduleFullName, commitID |-> commitID, digest |-> digest]

\* the commits get the ModuleFullNames of the modules in reverse order
CommitsOfResponse_ReverseOrder(modules, protoCommits) ==
    IF \E i \in 1..Len(protoCommits) : protoCommits[i].id # "uuid"
    THEN [err |-> UploadError("uuid.FromString failed", ""), commits |-> <<>>]
    ELSE [err |-> NoUploadError,
          commits |-> [i \in 1..Len(protoCommits) |->
                         NewCommit(modules[Len(protoCommits) + 1 - i].moduleFullName,
                                   ResponseCommitID(i, protoCommits[i]),
                                   ResponseDigest(i, protoCommits[i]))]]

\* the loop of Upload over response.Msg.Commits
CommitsOfResponse(modules, protoCommits) ==
    IF \E i \in 1..Len(protoCommits) : protoCommits[i].id # "uuid"
    THEN [err |-> UploadError("uuid.FromString failed", ""), commits |-> <<>>]
    ELSE [err |-> NoUploadError,
          commits |-> [i \in 1..Len(protoCommits) |->
                         NewCommit(modules[i].moduleFullName,
                                   ResponseCommitID(i, protoCommits[i]),
                                   ResponseDigest(i, protoCommits[i]))]]

\* what Upload returned, with the requests that the upload service got
UploadReturned(commits, err, requests, response) ==
    [returned |-> TRUE, commits |-> commits, err |-> err, requests |-> requests,
     response |-> response]

NotUploaded ==
    [returned |-> FALSE, commits |-> <<>>, err |-> NoUploadError, requests |-> <<>>,
     response |-> <<>>]

IdleUpload ==
    /\ targetLocalModulesAndTransitiveLocalDeps = <<>>
    /\ uploadResult = NotUploaded

\* Upload(ctx, clientProvider, targetLocalModulesAndTransitiveLocalDeps)
Upload ==
    /\ ~uploadResult.returned
    /\ \E readErrs \in [1..Len(targetLocalModulesAndTransitiveLocalDeps) -> {"", "ModuleDeps", "files"}] :
        LET modules == targetLocalModulesAndTransitiveLocalDeps
            checkErr == CheckUploadModules(modules)
            uploadedModuleOpaqueIDs == {modules[i].opaqueID : i \in 1..Len(modules)}
            contents == [i \in 1..Len(modules) |->
                           getProtoUploadRequestContent(uploadedModuleOpaqueIDs, modules[i],
                                                        readErrs[i])]
            request == [i \in 1..Len(modules) |->
                          [moduleRef |-> contents[i].moduleRef, depRefs |-> contents[i].depRefs]]
        IN
        IF checkErr # NoUploadError
        THEN uploadResult' = UploadReturned(<<>>, checkErr, <<>>, <<>>)
        ELSE IF Cardinality(Registries(modules)) > 1
        THEN uploadResult' = UploadReturned(<<>>, ErrMultipleRegistries, <<>>, <<>>)
        ELSE IF Cardinality(Registries(modules)) = 0
        THEN uploadResult' = UploadReturned(<<>>, ErrPanic, <<>>, <<>>)
        ELSE IF FirstError(contents) # NoUploadError
        THEN uploadResult' = UploadReturned(<<>>, FirstError(contents), <<>>, <<>>)
        ELSE \/ uploadResult' =
                   UploadReturned(<<>>, UploadError("UploadService.Upload failed", ""),
                                  <<request>>, <<>>)
             \/ \E protoCommits \in UploadResponseCommits(Len(modules)) :
                   uploadResult' =
                     IF Len(protoCommits) # Len(request)
                     THEN UploadReturned(<<>>, ErrExpectedCommits, <<request>>, protoCommits)
                     ELSE UploadReturned(CommitsOfResponse(modules, protoCommits).commits,
                                         CommitsOfResponse(modules, protoCommits).err,
                                         <<request>>, protoCommits)
    /\ UNCHANGED targetLocalModulesAndTransitiveLocalDeps
    /\ UNCHANGED notUpload

(***************************************************************************)
(* bufplugin.plugin                                                        *)
(* A string is the sequence of its words: "" is the empty sequence, and    *)
(* strings.Join(path, " ") is the path itself.                             *)
(***************************************************************************)
EmptyString == <<>>

\* a nil bufparse.FullName
NilPluginFullName == "nil"

PluginFullNames == {NilPluginFullName, "buf.build/acme/plugin"}

\* pluginFullName.String()
FullNameString(pluginFullName) == <<pluginFullName>>

PluginDescriptions == {EmptyString, <<"my", "plugin">>}

PluginPaths == {<<>>, <<"buf-plugin-x">>, <<"buf-plugin-x", "--strict">>}

NilUUID == "uuid.Nil"

PluginCommitIDs == {NilUUID, "commit-1"}

\* the getData argument: nil, a function that returns the bytes, a function
\* that fails
GetDataFuncs == {"nil", "data", "error"}

\* the keys of digestTypeToString, and a DigestType that is none of them
DigestTypeP1 == "p1"

DigestTypes == {DigestTypeP1}

UnknownDigestType == "p0"

\* what a call hands to its caller: a value, an error, or a panic
PluginReturn(method, kind, val) == [method |-> method, kind |-> kind, val |-> val]

NoPluginReturn == PluginReturn("none", "none", EmptyString)

\* a sync.OnceValues cell: not run yet, or run with the outcome it keeps; a
\* panic of the wrapped function is kept too and raised again by every call
IdleOnce == [done |-> FALSE, kind |-> "none", val |-> EmptyString]

DoneOnce(kind, val) == [done |-> TRUE, kind |-> kind, val |-> val]

NoPlugin ==
    [constructed |-> FALSE, description |-> EmptyString, pluginFullName |-> NilPluginFullName,
     path |-> <<>>, commitID |-> NilUUID, isWasm |-> FALSE, isLocal |-> FALSE,
     getDataFunc |-> "nil", getData |-> IdleOnce,
     digestTypeToGetDigest |-> [t \in DigestTypes |-> IdleOnce]]

IdlePlugin ==
    /\ plugin = NoPlugin
    /\ pluginReturn = NoPluginReturn

newPlugin(description, pluginFullName, path, commitID, isWasm, isLocal, getData) ==
    IF isWasm /\ getData = "nil"
    THEN [err |-> "syserror: getData not present when constructing a Wasm Plugin", plugin |-> NoPlugin]
    ELSE IF ~isWasm /\ Len(path) = 0
    THEN [err |-> "syserror: path not present when constructing a non-Wasm Plugin", plugin |-> NoPlugin]
    ELSE IF ~isLocal /\ pluginFullName = NilPluginFullName
    THEN [err |-> "syserror: pluginFullName not present when constructing a remote Plugin", plugin |-> NoPlugin]
    ELSE IF ~isLocal /\ ~isWasm
    THEN [err |-> "syserror: non-Wasm remote Plugins are not supported", plugin |-> NoPlugin]
    ELSE IF isLocal /\ commitID # NilUUID
    THEN [err |-> "syserror: commitID present when constructing a local Plugin", plugin |-> NoPlugin]
    ELSE IF pluginFullName = NilPluginFullName /\ commitID # NilUUID
    THEN [err |-> "syserror: pluginFullName not present and commitID present", plugin |-> NoPlugin]
    ELSE [err |-> "",
          plugin |-> [constructed |-> TRUE, description |-> description,
                      pluginFullName |-> pluginFullName, path |-> path, commitID |-> commitID,
                      isWasm |-> isWasm, isLocal |-> isLocal,
                      getDataFunc |-> getData, getData |-> IdleOnce,
                      digestTypeToGetDigest |-> [t \in DigestTypes |-> IdleOnce]]]

NewLocalWasmPlugin(pluginFullName, getData) ==
    newPlugin(EmptyString, pluginFullName, <<>>, NilUUID, TRUE, TRUE, getData)

PluginOpaqueID(p) ==
    IF p.pluginFullName # NilPluginFullName
    THEN FullNameString(p.pluginFullName)
    ELSE p.path

PluginDescription(p) ==
    IF p.description # EmptyString THEN p.description ELSE PluginOpaqueID(p)

\* p.getData(): the sync.OnceValues around the getData argument; calling a nil
\* function panics
PluginGetData(p) ==
    IF p.getData.done THEN p.getData
    ELSE IF p.getDataFunc = "nil" THEN DoneOnce("panic", <<"nil", "func", "call">>)
    ELSE IF p.getDataFunc = "error" THEN DoneOnce("error", <<"getData", "failed">>)
    ELSE DoneOnce("value", <<"wasm", "bytes">>)

\* NewDigest(digestType, bufcasDigest)
NewPluginDigest(digestType, data) == <<digestType>> \o data

\* the function newGetDigestFuncForPluginAndDigestType returns
PluginGetDigestFunc(p, digestType) ==
    LET data == PluginGetData(p) IN
    IF data.kind # "value" THEN DoneOnce(data.kind, data.val)
    ELSE DoneOnce("value", NewPluginDigest(digestType, data.val))

\* plugin.Digest(digestType): the plugin with its cells after the call, and
\* what the call returns
PluginDigest(p, digestType) ==
    IF digestType \notin DigestTypes
    THEN [plugin |-> p, ret |-> DoneOnce("error", <<"syserror:", "DigestType", "not", "in", "map">>)]
    ELSE IF p.digestTypeToGetDigest[digestType].done
    THEN [plugin |-> p, ret |-> p.digestTypeToGetDigest[digestType]]
    ELSE LET r == PluginGetDigestFunc(p, digestType) IN
         [plugin |-> [p EXCEPT !.getData = PluginGetData(p),
                               !.digestTypeToGetDigest[digestType] = r],
          ret |-> r]

\* plugin.Data()
PluginData(p) ==
    IF ~p.isWasm
    THEN [plugin |-> p, ret |-> DoneOnce("error", <<"Plugin", "is", "not", "a", "Wasm", "Plugin">>)]
    ELSE [plugin |-> [p EXCEPT !.getData = PluginGetData(p)], ret |-> PluginGetData(p)]

\* a call of newPlugin by one of the constructors of the package
NewPluginCall ==
    /\ ~plugin.constructed
    /\ \E description \in PluginDescriptions, pluginFullName \in PluginFullNames,
          path \in PluginPaths, commitID \in PluginCommitIDs,
          isWasm \in BOOLEAN, isLocal \in BOOLEAN, getData \in GetDataFuncs :
          LET r == newPlugin(description, pluginFullName, path, commitID, isWasm, isLocal, getData) IN
          /\ plugin' = r.plugin
          /\ pluginReturn' = PluginReturn("newPlugin",
                                 IF r.err = "" THEN "value" ELSE "error", <<r.err>>)
    /\ UNCHANGED notPlugin

NewLocalWasmPluginCall ==
    /\ ~plugin.constructed
    /\ \E pluginFullName \in PluginFullNames, getData \in GetDataFuncs :
          LET r == NewLocalWasmPlugin(pluginFullName, getData) IN
          /\ plugin' = r.plugin
          /\ pluginReturn' = PluginReturn("NewLocalWasmPlugin",
                                 IF r.err = "" THEN "value" ELSE "error", <<r.err>>)
    /\ UNCHANGED notPlugin

DescriptionCall ==
    /\ plugin.constructed
    /\ pluginReturn' = PluginReturn("Description", "value", PluginDescription(plugin))
    /\ UNCHANGED plugin
    /\ UNCHANGED notPlugin

DigestCall ==
    /\ plugin.constructed
    /\ \E digestType \in DigestTypes \cup {UnknownDigestType} :
          LET r == PluginDigest(plugin, digestType) IN
          /\ plugin' = r.plugin
          /\ pluginReturn' = PluginReturn("Digest", r.ret.kind, r.ret.val)
    /\ UNCHANGED notPlugin

DataCall ==
    /\ plugin.constructed
    /\ LET r == PluginData(plugin) IN
          /\ plugin' = r.plugin
          /\ pluginReturn' = PluginReturn("Data", r.ret.kind, r.ret.val)
    /\ UNCHANGED notPlugin

(***************************************************************************)
(* bufcheckserverutil.Before / NewRuleHandler                              *)
(***************************************************************************)
CheckFileNames == {"a.proto", "b.proto", "c.proto"}

\* the file lists a check.Request can carry
CheckFileLists == InjectiveSeqs(CheckFileNames)

CheckRequest(files, againstFiles) == [files |-> files, againstFiles |-> againstFiles]

\* bufprotosource.NewFiles(ctx, slicesext.Map(files, newInputFile), resolver):
\* one bufprotosource.File per check.File, in order
NewProtosourceFiles(files) == [i \in 1..Len(files) |-> [protosource |-> files[i]]]

\* protosourceFilesForFiles: nil for no files; resolverFails says that
\* protodesc.NewFiles or bufprotosource.NewFiles returns an error
protosourceFilesForFiles(files, resolverFails) ==
    IF Len(files) = 0 THEN [files |-> <<>>, err |-> ""]
    ELSE IF resolverFails THEN [files |-> <<>>, err |-> "protosource files failed"]
    ELSE [files |-> NewProtosourceFiles(files), err |-> ""]

\* the context after Before: a value is attached only for a non-empty list
CheckCtx(state, protosourceFiles, againstProtosourceFiles) ==
    [state |-> state, protosourceFiles |-> protosourceFiles,
     againstProtosourceFiles |-> againstProtosourceFiles]

NoCheckCtx == CheckCtx("none", <<>>, <<>>)

\* newRequest(request, protosourceFiles, againstProtosourceFiles)
newRequest(request, protosourceFiles, againstProtosourceFiles) ==
    [called |-> TRUE, request |-> request, protosourceFiles |-> protosourceFiles,
     againstProtosourceFiles |-> againstProtosourceFiles]

NoHandlerRequest ==
    [called |-> FALSE, request |-> CheckRequest(<<>>, <<>>), protosourceFiles |-> <<>>,
     againstProtosourceFiles |-> <<>>]

IdleCheckServer ==
    /\ checkRequest = CheckRequest(<<>>, <<>>)
    /\ checkCtx = NoCheckCtx
    /\ handlerRequest = NoHandlerRequest

\* the Before hook of a check.Spec, run on the request before its rules
Before ==
    /\ checkCtx.state = "none"
    /\ \E resolverFails \in BOOLEAN, againstResolverFails \in BOOLEAN :
          LET protosourceFiles == protosourceFilesForFiles(checkRequest.files, resolverFails)
              againstProtosourceFiles ==
                  protosourceFilesForFiles(checkRequest.files, againstResolverFails)
          IN checkCtx' =
                IF protosourceFiles.err # "" \/ againstProtosourceFiles.err # ""
                THEN CheckCtx("error", <<>>, <<>>)
                ELSE CheckCtx("ok", protosourceFiles.files, againstProtosourceFiles.files)
    /\ UNCHANGED <<checkRequest, handlerRequest>>
    /\ UNCHANGED notCheckServer

\* the check.RuleHandlerFunc that NewRuleHandler returns, called for a rule
\* with the context and the request that Before returned
RuleHandler ==
    /\ checkCtx.state = "ok"
    /\ ~handlerRequest.called
    /\ handlerRequest' = newRequest(checkRequest, checkCtx.protosourceFiles,
                                    checkCtx.againstProtosourceFiles)
    /\ UNCHANGED <<checkRequest, checkCtx>>
    /\ UNCHANGED notCheckServer

(***************************************************************************)
(* bufcheck.runnerProvider: the runner of a remote plugin                  *)
(***************************************************************************)
\* the PluginConfigs of type remote: PluginRef() may be nil
PluginConfigs == [type : {"remote"}, hasPluginRef : BOOLEAN]

CtxCanceled == "context canceled"

\* the closure variables of the runner: once, compiledModule, compiledModuleErr,
\* and the caller whose Run executes the function given to once.Do
RunnerOnce(state, executor, compiledModule, compiledModuleErr) ==
    [state |-> state, executor |-> executor, compiledModule |-> compiledModule,
     compiledModuleErr |-> compiledModuleErr]

NoCompiledModule == "nil"

NoExecutor == 0

IdleRunnerOnce == RunnerOnce("idle", NoExecutor, NoCompiledModule, "")

NoLoads == [fetch |-> 0, compile |-> 0]

IdleRunner ==
    /\ pluginConfig = [type |-> "remote", hasPluginRef |-> FALSE]
    /\ rnOnce = IdleRunnerOnce
    /\ rnLoads = NoLoads
    /\ rnPc = [c \in Callers |-> "idle"]
    /\ rnCtx = [c \in Callers |-> "live"]
    /\ rnCalls = 0
    /\ rnReturns = {}

\* NewRunner(pluginConfig) for a remote plugin: nothing is loaded yet
NewRunner ==
    /\ pluginConfig \in PluginConfigs
    /\ rnOnce = IdleRunnerOnce
    /\ rnLoads = NoLoads
    /\ rnPc = [c \in Callers |-> "idle"]
    /\ rnCtx = [c \in Callers |-> "live"]
    /\ rnCalls = 0
    /\ rnReturns = {}

\* a caller calls Run(ctx, env) with a context of its own
RnCall(c) ==
    /\ rnPc[c] = "idle"
    /\ rnCalls < MaxCalls
    /\ rnCalls' = rnCalls + 1
    /\ rnPc' = [rnPc EXCEPT ![c] = "once.Do"]
    /\ rnCtx' = [rnCtx EXCEPT ![c] = "live"]
    /\ UNCHANGED <<pluginConfig, rnOnce, rnLoads, rnReturns>>
    /\ UNCHANGED notRunner

\* the context of a Run call that is under way is cancelled
RnCancel(c) ==
    /\ rnPc[c] # "idle"
    /\ rnCtx[c] = "live"
    /\ rnCtx' = [rnCtx EXCEPT ![c] = "cancelled"]
    /\ UNCHANGED <<pluginConfig, rnOnce, rnLoads, rnPc, rnCalls, rnReturns>>
    /\ UNCHANGED notRunner

\* every Run loads the plugin again
RnOnceDo_NoOnce(c) ==
    /\ rnPc[c] = "once.Do"
    /\ rnOnce.state # "running"
    /\ rnOnce' = RunnerOnce("running", c, NoCompiledModule, "")
    /\ rnPc' = [rnPc EXCEPT ![c] = "loadRemotePlugin"]
    /\ UNCHANGED <<pluginConfig, rnLoads, rnCtx, rnCalls, rnReturns>>
    /\ UNCHANGED notRunner

\* once.Do(func() { ... }): the first caller runs the function, a caller that
\* arrives while it runs is blocked until it is over, a later caller skips it
RnOnceDo(c) ==
    /\ rnPc[c] = "once.Do"
    /\ OnceCall(rnOnce.state) # "wait"
    /\ IF OnceCall(rnOnce.state) = "run"
       THEN /\ rnOnce' = RunnerOnce("running", c, NoCompiledModule, "")
            /\ rnPc' = [rnPc EXCEPT ![c] = "loadRemotePlugin"]
       ELSE /\ rnPc' = [rnPc EXCEPT ![c] = "loaded"]
            /\ UNCHANGED rnOnce
    /\ UNCHANGED <<pluginConfig, rnLoads, rnCtx, rnCalls, rnReturns>>
    /\ UNCHANGED notRunner

\* the errors of loadRemotePlugin before the compilation, "" for none, when
\* the context is live
FetchPluginOutcomes ==
    IF ~pluginConfig.hasPluginRef
    THEN {"syserror: pluginRef is required for remote plugins"}
    ELSE {"", "GetPluginKeysForPluginRefs failed", "syserror: expected 1 plugin key",
          "GetPluginDatasForPluginKeys failed", "syserror: expected 1 plugin data",
          "pluginData.Data failed"}

\* the once-cell is never marked as over
RnLoaded_StaysRunning(c, compiledModule, compiledModuleErr) ==
    /\ rnOnce' = RunnerOnce("running", rnOnce.executor, compiledModule, compiledModuleErr)
    /\ rnPc' = [rnPc EXCEPT ![c] = "loaded"]

\* the function given to once.Do is over: the two variables are assigned
RnLoaded(c, compiledModule, compiledModuleErr) ==
    /\ rnOnce' = RunnerOnce("done", rnOnce.executor, compiledModule, compiledModuleErr)
    /\ rnPc' = [rnPc EXCEPT ![c] = "loaded"]

\* loadRemotePlugin up to pluginData.Data(): the plugin key and the plugin
\* data are fetched with the context of this Run
RnFetchPlugin(c) ==
    /\ rnPc[c] = "loadRemotePlugin"
    /\ rnLoads' = [rnLoads EXCEPT !.fetch = @ + 1]
    /\ \E err \in IF pluginConfig.hasPluginRef /\ rnCtx[c] = "cancelled"
                  THEN {CtxCanceled} ELSE FetchPluginOutcomes :
          IF err # ""
          THEN RnLoaded(c, NoCompiledModule, err)
          ELSE /\ rnPc' = [rnPc EXCEPT ![c] = "Compile"]
               /\ UNCHANGED rnOnce
    /\ UNCHANGED <<pluginConfig, rnCtx, rnCalls, rnReturns>>
    /\ UNCHANGED notRunner

\* return r.wasmRuntime.Compile(ctx, pluginConfig.Name(), data)
RnCompile(c) ==
    /\ rnPc[c] = "Compile"
    /\ rnLoads' = [rnLoads EXCEPT !.compile = @ + 1]
    /\ \E err \in IF rnCtx[c] = "cancelled" THEN {CtxCanceled} ELSE {"", "Compile failed"} :
          IF err # ""
          THEN RnLoaded(c, NoCompiledModule, err)
          ELSE RnLoaded(c, "compiled module", "")
    /\ UNCHANGED <<pluginConfig, rnCtx, rnCalls, rnReturns>>
    /\ UNCHANGED notRunner

\* what a Run call returns: its error, the compiled module it ran ("nil" when
\* none), and the state of its own context
RnReturned(ctx, ran, err) == [ctx |-> ctx, ran |-> ran, err |-> err]

\* if compiledModuleErr != nil { return compiledModuleErr }
\* return compiledModule.Run(ctx, env)
RnReturn(c) ==
    /\ rnPc[c] = "loaded"
    /\ IF rnOnce.compiledModuleErr # ""
       THEN rnReturns' = rnReturns \cup
               {RnReturned(rnCtx[c], NoCompiledModule, rnOnce.compiledModuleErr)}
       ELSE \E err \in IF rnCtx[c] = "cancelled" THEN {CtxCanceled} ELSE {"", "plugin failed"} :
               rnReturns' = rnReturns \cup {RnReturned(rnCtx[c], rnOnce.compiledModule, err)}
    /\ rnPc' = [rnPc EXCEPT ![c] = "idle"]
    /\ UNCHANGED <<pluginConfig, rnOnce, rnLoads, rnCtx, rnCalls>>
    /\ UNCHANGED notRunner

(***************************************************************************)
(* The context that the memoized functions of a ModuleData and of a lazy   *)
(* Module capture when they are built (the methods that call them take no  *)
(* context, or ignore it); the runner of a remote plugin uses the context  *)
(* of the Run call that executes the load.                                 *)
(***************************************************************************)
IdleContext == capturedCtx = "live"

\* which of the three objects a behaviour follows
ModuleDataActive == moduleKey.digest # NoDigest

LazyModuleActive == moduleInfo.hasModuleFullName

RunnerActive == pluginConfig.hasPluginRef

\* the context is cancelled
CancelCapturedCtx ==
    /\ ModuleDataActive \/ LazyModuleActive
    /\ capturedCtx = "live"
    /\ capturedCtx' = "cancelled"
    /\ UNCHANGED notContext

\* with the context cancelled, getB5Digest(ctx, ...), the last step of the
\* tamper check, fails: a check that ends after the cancellation ends in an
\* error (the getBucket and getDeclaredDepModuleKeys functions take no context)
MdCancelledFails ==
    capturedCtx = "cancelled" =>
        ((checkDigest.state = "running" /\ checkDigest'.state = "done") =>
              checkDigest'.err # "")

\* with the context cancelled, delegate.GetModuleForModuleInfo(ctx, ...) and
\* module.DepModules(ctx) fail
LmCancelledFails ==
    capturedCtx = "cancelled" =>
        /\ lmFetches' # lmFetches => getModuleAndDigest'.err # ""
        /\ (getDepModules.state = "running" /\ getDepModules'.state = "done") =>
              getDepModules'.err # ""

\* a step of a caller inside Bucket() or DeclaredDepModuleKeys()
MdStep(c) ==
    /\ ModuleDataActive
    /\ \/ MdCheckDigest(c)
       \/ MdCheckGetBucket(c)
       \/ MdCheckGetDeclaredDepModuleKeys(c)
       \/ MdCheckCompare(c)
       \/ MdReturn(c)
    /\ MdCancelledFails

\* a step of a caller inside a content-bearing method of the lazy Module
LmStep(c) ==
    /\ LazyModuleActive
    /\ \/ LmGetDepModules(c)
       \/ LmGetModuleAndDigest(c)
       \/ LmGetModuleFunc(c)
       \/ LmDigests(c)
       \/ LmDepModules(c)
       \/ LmReturn(c)
    /\ LmCancelledFails

\* a step of a caller inside Run
RnStep(c) ==
    /\ RunnerActive
    /\ \/ RnOnceDo(c)
       \/ RnFetchPlugin(c)
       \/ RnCompile(c)
       \/ RnReturn(c)

(***************************************************************************)
(* Specifications                                                          *)
(***************************************************************************)
InitModuleData ==
    /\ IdleContext
    /\ IdleRunner
    /\ IdleCheckServer
    /\ IdlePlugin
    /\ IdleUpload
    /\ IdleWorkspace
    /\ newModuleData
    /\ IdleImage
    /\ IdleLazyModule
    /\ IdleReadBucket
    /\ IdleModuleTargeting

NextModuleData ==
    \E c \in Callers :
        \/ MdCall(c, "Bucket")
        \/ MdCall(c, "DeclaredDepModuleKeys")
        \/ MdCheckDigest(c)
        \/ MdCheckGetBucket(c)
        \/ MdCheckGetDeclaredDepModuleKeys(c)
        \/ MdCheckCompare(c)
        \/ MdReturn(c)

SpecModuleData == InitModuleData /\ [][NextModuleData]_vars

InitLazyModule ==
    /\ IdleContext
    /\ IdleRunner
    /\ IdleCheckServer
    /\ IdlePlugin
    /\ IdleUpload
    /\ IdleWorkspace
    /\ newLazyModuleProvider
    /\ IdleImage
    /\ IdleModuleData
    /\ IdleReadBucket
    /\ IdleModuleTargeting

NextLazyModule ==
    \/ GetModuleForModuleInfo
    \/ \E c \in Callers :
        \/ \E op \in InfoMethods : LmInfo(c, op)
        \/ \E op \in ContentMethods : LmCall(c, op)
        \/ LmGetDepModules(c)
        \/ LmGetModuleAndDigest(c)
        \/ LmGetModuleFunc(c)
        \/ LmDigests(c)
        \/ LmDepModules(c)
        \/ LmReturn(c)

SpecLazyModule == InitLazyModule /\ [][NextLazyModule]_vars

InitReadBucket ==
    /\ IdleContext
    /\ IdleRunner
    /\ IdleCheckServer
    /\ IdlePlugin
    /\ IdleUpload
    /\ IdleWorkspace
    /\ newModuleReadBucket
    /\ IdleImage
    /\ IdleModuleData
    /\ IdleLazyModule
    /\ IdleModuleTargeting

NextReadBucket ==
    \/ \E path \in Paths : StatFileInfo(path)
    \/ \E onlyTargetFiles \in BOOLEAN : WalkFileInfos(onlyTargetFiles)
    \/ \E isTarget \in BOOLEAN : SetIsTargetModule(isTarget)

SpecReadBucket == InitReadBucket /\ [][NextReadBucket]_vars

InitModuleTargeting ==
    /\ IdleContext
    /\ IdleRunner
    /\ IdleCheckServer
    /\ IdlePlugin
    /\ IdleUpload
    /\ IdleWorkspace
    /\ config \in WorkspaceBucketConfigs
    /\ moduleTargeting = NoModuleTargeting
    /\ IdleImage
    /\ IdleModuleData
    /\ IdleLazyModule
    /\ IdleReadBucket

NextModuleTargeting ==
    \E moduleDirPath \in ModuleDirPaths, roots \in RootLists,
       isTentativelyTargetModule \in BOOLEAN :
        NewModuleTargeting(moduleDirPath, roots, isTentativelyTargetModule)

SpecModuleTargeting == InitModuleTargeting /\ [][NextModuleTargeting]_vars

\* a resolution by GetWorkspaceForBucket of a v1beta1 or v1 workspace
InitBucketV1 ==
    /\ bucketConfig \in BucketConfigs
    /\ configOverride \in ConfigOverrides("v1")
    /\ workspaceTargeting \in [isV2 : {FALSE}, v1DirPaths : ModuleDirPathLists]
    /\ bucketFiles \in [Range(workspaceTargeting.v1DirPaths) ->
                          [bufYAML : BufYAMLReads(BufYAMLFilesV1), bufLock : BufLockReads]]
    /\ remoteModule = NoRemoteModule
    /\ resolution = NewResolution("GetWorkspaceForBucket")

\* a resolution by GetWorkspaceForBucket of a v2 workspace
InitBucketV2 ==
    /\ bucketConfig \in BucketConfigs
    /\ configOverride \in ConfigOverrides("v2")
    /\ workspaceTargeting = [isV2 |-> TRUE, v1DirPaths |-> <<>>]
    /\ bucketFiles \in [{Root} ->
                          [bufYAML : BufYAMLReads(BufYAMLFilesV2 \cup BufYAMLFilesV1),
                           bufLock : BufLockReads]]
    /\ remoteModule = NoRemoteModule
    /\ resolution = NewResolution("GetWorkspaceForBucket")

\* a resolution by GetWorkspaceForModuleKey
InitModuleKey ==
    /\ bucketConfig = NoBucketConfig
    /\ configOverride \in ModuleKeyConfigOverrides
    /\ workspaceTargeting = NoWorkspaceTargeting
    /\ bucketFiles = <<>>
    /\ remoteModule \in RemoteModules
    /\ resolution = NewResolution("GetWorkspaceForModuleKey")

InitWorkspace ==
    /\ IdleContext
    /\ IdleRunner
    /\ IdleCheckServer
    /\ IdlePlugin
    /\ IdleUpload
    /\ IdleImage
    /\ IdleModuleData
    /\ IdleLazyModule
    /\ IdleReadBucket
    /\ IdleModuleTargeting
    /\ InitBucketV1 \/ InitBucketV2 \/ InitModuleKey
    /\ workspaceResult = NothingReturned

NextWorkspace ==
    \/ GetWorkspaceForBucket
    \/ V1ModuleDirPath
    \/ V1AfterLoop
    \/ V2BufYAMLAndBufLock
    \/ V2ModuleConfig
    \/ V2AfterLoop
    \/ GetWorkspaceForModuleKey

SpecWorkspace == InitWorkspace /\ [][NextWorkspace]_vars

InitUpload ==
    /\ IdleContext
    /\ IdleRunner
    /\ IdleCheckServer
    /\ IdlePlugin
    /\ IdleImage
    /\ IdleModuleData
    /\ IdleLazyModule
    /\ IdleReadBucket
    /\ IdleModuleTargeting
    /\ IdleWorkspace
    /\ \E attributes \in [UploadOpaqueIDs -> UploadModuleAttributes],
          deps \in UploadModuleDeps, opaqueIDs \in UploadOpaqueIDLists :
          targetLocalModulesAndTransitiveLocalDeps =
              [i \in 1..Len(opaqueIDs) |-> UploadModule(opaqueIDs[i], attributes, deps)]
    /\ uploadResult = NotUploaded

NextUpload == Upload

SpecUpload == InitUpload /\ [][NextUpload]_vars

InitPlugin ==
    /\ IdleContext
    /\ IdleRunner
    /\ IdleCheckServer
    /\ IdleImage
    /\ IdleModuleData
    /\ IdleLazyModule
    /\ IdleReadBucket
    /\ IdleModuleTargeting
    /\ IdleWorkspace
    /\ IdleUpload
    /\ plugin = NoPlugin
    /\ pluginReturn = NoPluginReturn

NextPlugin ==
    \/ NewPluginCall
    \/ NewLocalWasmPluginCall
    \/ DescriptionCall
    \/ DigestCall
    \/ DataCall

SpecPlugin == InitPlugin /\ [][NextPlugin]_vars

InitCheckServer ==
    /\ IdleContext
    /\ IdleRunner
    /\ IdleImage
    /\ IdleModuleData
    /\ IdleLazyModule
    /\ IdleReadBucket
    /\ IdleModuleTargeting
    /\ IdleWorkspace
    /\ IdleUpload
    /\ IdlePlugin
    /\ checkRequest \in {CheckRequest(f, a) : f \in CheckFileLists, a \in CheckFileLists}
    /\ checkCtx = NoCheckCtx
    /\ handlerRequest = NoHandlerRequest

NextCheckServer ==
    \/ Before
    \/ RuleHandler

SpecCheckServer == InitCheckServer /\ [][NextCheckServer]_vars

InitRunner ==
    /\ IdleContext
    /\ IdleImage
    /\ IdleModuleData
    /\ IdleLazyModule
    /\ IdleReadBucket
    /\ IdleModuleTargeting
    /\ IdleWorkspace
    /\ IdleUpload
    /\ IdlePlugin
    /\ IdleCheckServer
    /\ NewRunner

NextRunner ==
    \E c \in Callers :
        \/ RnCall(c)
        \/ RnCancel(c)
        \/ RnOnceDo(c)
        \/ RnFetchPlugin(c)
        \/ RnCompile(c)
        \/ RnReturn(c)

SpecRunner == InitRunner /\ [][NextRunner]_vars

\* one memoized computation is followed: the load of a remote plugin, the
\* tamper check of a ModuleData, or the resolution of a lazy Module; as many
\* calls are made as there are callers
InitCancellation ==
    /\ IdleContext
    /\ IdleImage
    /\ IdleReadBucket
    /\ IdleModuleTargeting
    /\ IdleWorkspace
    /\ IdleUpload
    /\ IdlePlugin
    /\ IdleCheckServer
    /\ \/ /\ NewRunner
          /\ RunnerActive
          /\ IdleModuleData
          /\ IdleLazyModule
       \/ /\ IdleRunner
          /\ newModuleData
          /\ moduleKey = [err |-> "", digest |-> Digest("b5", 1)]
          /\ IdleLazyModule
       \/ /\ IdleRunner
          /\ IdleModuleData
          /\ newLazyModuleProvider
          /\ delegate = "other"
          /\ moduleInfo = [hasModuleFullName |-> TRUE,
                           digest |-> [err |-> "", digest |-> Digest("b5", 1)]]

NextCancellation ==
    \/ CancelCapturedCtx
    \/ LazyModuleActive /\ GetModuleForModuleInfo
    \/ \E c \in Callers :
        \/ RunnerActive /\ rnCalls < NumCallers /\ RnCall(c)
        \/ RunnerActive /\ RnCancel(c)
        \/ RnStep(c)
        \/ ModuleDataActive /\ mdCalls < NumCallers /\ MdCall(c, "Bucket")
        \/ ModuleDataActive /\ mdCalls < NumCallers /\ MdCall(c, "DeclaredDepModuleKeys")
        \/ MdStep(c)
        \/ \E op \in {"GetFile", "DepModules"} :
              LazyModuleActive /\ lmCalls < NumCallers /\ LmCall(c, op)
        \/ LmStep(c)

\* a call that is under way goes on: its goroutine is scheduled, an operation
\* whose context is cancelled returns, and a once-cell that is over releases
\* the callers it blocked
FairCancellation ==
    \A c \in Callers :
        /\ WF_vars(RnStep(c))
        /\ WF_vars(MdStep(c))
        /\ WF_vars(LmStep(c))

SpecCancellation == InitCancellation /\ [][NextCancellation]_vars /\ FairCancellation

InitImage ==
    /\ IdleContext
    /\ IdleRunner
    /\ IdleCheckServer
    /\ IdlePlugin
    /\ IdleUpload
    /\ IdleWorkspace
    /\ imports \in ImportGraphs
    /\ isTargetFile \in [Files -> BOOLEAN]
    /\ shouldBeSelfContained \in BOOLEAN
    /\ numRuns = 0
    /\ firstResult = NoResult
    /\ lastResult = NoResult
    /\ IdleModuleData
    /\ IdleLazyModule
    /\ IdleReadBucket
    /\ IdleModuleTargeting

\* one call of buildImage on the bucket; the bucket walk may visit the files
\* in any order, and the compiler answers with any of its outcomes
BuildImage ==
    /\ \E noParallelism \in BOOLEAN :
         \E targetFileInfos \in {GetTargetFileInfos(walkOrder) : walkOrder \in Permutations_(Files)} :
            \E outcome \in CompilerOutcomes(targetFileInfos, noParallelism) :
                LET r == buildImage(targetFileInfos, noParallelism, outcome) IN
                /\ lastResult' = r
                /\ firstResult' = IF numRuns = 0 THEN r ELSE firstResult
    /\ numRuns' = numRuns + 1
    /\ UNCHANGED <<imports, isTargetFile, shouldBeSelfContained>>
    /\ UNCHANGED notImage

\* a single build of the bucket
BuildImageOnce == numRuns = 0 /\ BuildImage

NextImage == BuildImageOnce

SpecImage == InitImage /\ [][NextImage]_vars

\* repeated builds of the same bucket (with any parallelism setting each)
BuildImageAgain == numRuns < MaxRuns /\ BuildImage

NextImageRuns == BuildImageAgain

SpecImageRuns == InitImage /\ [][NextImageRuns]_vars

(***************************************************************************)
(* Properties of the built image                                           *)
(***************************************************************************)
ImagePaths(r) == [i \in 1..Len(r.image) |-> r.image[i].path]

TargetPaths == {f \in Files : isTargetFile[f]}

\* C1: the image file list is a topological order of the import graph
\* (every file comes after all the files it imports, directly or
\* transitively) and holds each path exactly once.
C1_TopologicalOrderNoDuplicates ==
    lastResult.kind = "image" =>
        LET ps == ImagePaths(lastResult) IN
        /\ IsInjective(ps)
        /\ \A i \in 1..Len(ps) :
              \A d \in TransitiveImports(imports, ps[i]) :
                 \E j \in 1..(i - 1) : ps[j] = d

\* an image of three files in which a file with a smaller path imports a file
\* with a larger path, and one file is imported by two files
C1_Witness ==
    /\ lastResult.kind = "image"
    /\ Len(lastResult.image) = 3
    /\ \E f, g \in Files : f < g /\ g \in Range(imports[f])
    /\ \E f, g, h \in Files : f # g /\ h \in Range(imports[f]) /\ h \in Range(imports[g])

\* C2: a file of the image is flagged IsImport=false iff its path is one of
\* the requested target paths, also when the target is first reached as an
\* import of another target.
C2_IsImportIffNotTarget ==
    lastResult.kind = "image" =>
        \A i \in 1..Len(lastResult.image) :
            lastResult.image[i].isImport <=> (lastResult.image[i].path \notin TargetPaths)

\* an image with a non-target import, in which a target is emitted as an
\* import of an earlier-requested target
C2_Witness ==
    /\ lastResult.kind = "image"
    /\ \E i \in 1..Len(lastResult.image) : lastResult.image[i].isImport
    /\ \E t, u \in TargetPaths : t < u /\ u \in Range(imports[t])

\* C3 (as stated): every compile that ends without errors, whatever the order
\* in which the compiler hands back the requested files and whatever the
\* parallelism, makes buildImage produce an image, and two builds of the same
\* bucket produce the same path sequence.
C3_SameImageForEveryCompilerOrder ==
    (/\ firstResult.compiled \in {"ordered", "reordered"}
     /\ lastResult.compiled \in {"ordered", "reordered"})
    => /\ firstResult.kind = "image"
       /\ lastResult.kind = "image"
       /\ ImagePaths(firstResult) = ImagePaths(lastResult)

\* C4: the paths of the image are exactly the target files and all their
\* transitive imports.
C4_ImageIsTargetsPlusTransitiveImports ==
    lastResult.kind = "image" =>
        Range(ImagePaths(lastResult)) =
            TargetPaths \cup UNION {TransitiveImports(imports, t) : t \in TargetPaths}

\* an image that holds an import that is not a target, while a file of the
\* bucket that no target reaches (but that imports a file of the image) is
\* left out
C4_Witness ==
    /\ lastResult.kind = "image"
    /\ \E t \in TargetPaths : TransitiveImports(imports, t) \ TargetPaths # {}
    /\ \E f \in Files \ Range(ImagePaths(lastResult)) :
          Range(imports[f]) \cap Range(ImagePaths(lastResult)) # {}

(***************************************************************************)
(* Properties of ModuleData                                                *)
(***************************************************************************)
MdReturnIndexes == 1..Len(mdReturns)

\* C5: an accessor returns successfully only if the digest recomputed over
\* the fetched bucket and declared dependency keys equals the digest of the
\* ModuleKey (type and value); if the two differ, the accessor returns the
\* verification error and neither the bucket nor the dependency keys.
C5_ReturnsOnlyVerifiedData ==
    \A i \in MdReturnIndexes :
        LET r == mdReturns[i] IN
        /\ r.err = "" =>
              /\ getBucket.done /\ getBucket.err = ""
              /\ getDeclaredDepModuleKeys.done /\ getDeclaredDepModuleKeys.err = ""
              /\ moduleKey.err = ""
              /\ actualDigest = moduleKey.digest
              /\ (r.op = "Bucket" => r.bucket = getBucket.val)
              /\ (r.op = "DeclaredDepModuleKeys" => r.deps = getDeclaredDepModuleKeys.val)
        /\ (actualDigest # NoDigest /\ actualDigest # moduleKey.digest) =>
              /\ r.err = VerificationFailed
              /\ r.bucket = NoBucket
              /\ r.deps = NoDeps

\* both accessors have returned the verification error for data whose B5
\* digest has another value than the (B5) digest of the ModuleKey
C5_Witness ==
    /\ actualDigest.type = moduleKey.digest.type
    /\ actualDigest.value # moduleKey.digest.value
    /\ \E i, j \in MdReturnIndexes :
          /\ mdReturns[i].op = "Bucket"
          /\ mdReturns[j].op = "DeclaredDepModuleKeys"
          /\ mdReturns[i].err = VerificationFailed
          /\ mdReturns[j].err = VerificationFailed

\* C6: once an accessor call has failed, every later call of either accessor
\* returns that same error (and no data), and the check ran only once.
C6_FailureIsPermanent ==
    /\ mdRuns.checkDigest <= 1
    /\ \A i, j \in MdReturnIndexes :
          (i < j /\ mdReturns[i].err # "") =>
              /\ mdReturns[j].err = mdReturns[i].err
              /\ mdReturns[j].bucket = NoBucket
              /\ mdReturns[j].deps = NoDeps

\* three calls, of both accessors, have returned after the check failed
C6_Witness ==
    /\ Len(mdReturns) = 3
    /\ mdReturns[1].err # ""
    /\ \E i, j \in MdReturnIndexes :
          mdReturns[i].op = "Bucket" /\ mdReturns[j].op = "DeclaredDepModuleKeys"


\* the state of a lazy Module, read off its resolution cell
ModuleState ==
    IF getModuleAndDigest.state = "idle" THEN "Unresolved"
    ELSE IF getModuleAndDigest.state = "running" THEN "Resolving"
    ELSE IF getModuleAndDigest.err = "" THEN "Resolved"
    ELSE "Failed"

\* C7: a lazy Module moves Unresolved -> Resolving -> {Resolved, Failed} and
\* in no other way; the delegate is asked only while Resolving and at most
\* once over all GetFile, StatFileInfo, WalkFileInfos, Digest and DepModules
\* calls; Resolved and Failed are never left and the kept result never
\* changes; once Failed, every one of these methods returns the error of the
\* resolution and no further fetch is made.
C7_LazyModuleStateMachine ==
    [][ /\ (ModuleState = "Unresolved" => ModuleState' \in {"Unresolved", "Resolving"})
        /\ (ModuleState = "Resolving" => ModuleState' \in {"Resolving", "Resolved", "Failed"})
        /\ (ModuleState \in {"Resolved", "Failed"} => getModuleAndDigest' = getModuleAndDigest)
        /\ (lmFetches' # lmFetches => ModuleState = "Resolving")
        /\ lmFetches' <= 1
        /\ (ModuleState' = "Failed" =>
              \A r \in lmReturns' :
                 r.op \in ContentMethods =>
                    /\ r.err = getModuleAndDigest'.err
                    /\ r.module = NoModule
                    /\ r.digest = NoDigest)
      ]_vars

\* a Module that failed to resolve was asked by three different methods, one
\* after the other; all got the error, and the delegate was asked once
C7_Witness ==
    /\ ModuleState = "Failed"
    /\ lmFetches = 1
    /\ \A c \in Callers : lmPc[c] = "idle"
    /\ \A op \in {"Digest", "DepModules", "GetFile"} :
          \E r \in lmReturns : r.op = op /\ r.err = getModuleAndDigest.err

\* some caller has entered a content-bearing method of the lazy Module
ContentMethodCalled ==
    \/ \E c \in Callers : lmPc[c] # "idle"
    \/ \E r \in lmReturns : r.op \in ContentMethods

\* C8: as long as no content-bearing method has been called, the delegate has
\* not been invoked and nothing is resolved, whether or not the lazy Module
\* was created and its ModuleFullName and CommitID were read.
C8_NoFetchBeforeContentMethod ==
    ~ContentMethodCalled =>
        /\ lmFetches = 0
        /\ getModuleAndDigest = IdleResolution
        /\ getDepModules = IdleDepModules

\* the lazy Module was created and both ModuleInfo properties were read
C8_Witness ==
    /\ lazyModule = "created"
    /\ ~ContentMethodCalled
    /\ \A op \in InfoMethods : \E r \in lmReturns : r.op = op
    /\ lmFetches = 0


\* the path equals the other path or lies under it
EqualsOrLiesUnder(path, other) ==
    /\ Len(other) <= Len(path)
    /\ \A i \in 1..Len(other) : path[i] = other[i]

\* what C9 says IsTargetFile is, for a file of a module that was or was not a target
IsTargetFileAsSpecified(path, moduleIsTarget) ==
    /\ moduleIsTarget
    /\ \/ targetPathMap = {}
       \/ \E include \in targetPathMap : EqualsOrLiesUnder(path, include)
    /\ ~\E exclude \in targetExcludePathMap : EqualsOrLiesUnder(path, exclude)

\* C9: every FileInfo a module read bucket hands out has IsTargetFile false
\* when the module is no target module, and otherwise true iff (there are no
\* include paths or the path equals or lies under one) and the path neither
\* equals nor lies under an exclude path; a walk with only target files hands
\* out exactly the files for which this is true.
C9_IsTargetFile ==
    /\ \A fileInfo \in rbResult.fileInfos :
          fileInfo.isTargetFile = IsTargetFileAsSpecified(fileInfo.path, fileInfo.moduleWasTarget)
    /\ (rbResult.op = "WalkFileInfos" /\ rbResult.onlyTargetFiles) =>
          \E moduleIsTarget \in BOOLEAN :
             {fileInfo.path : fileInfo \in rbResult.fileInfos}
                = {path \in rbDelegate : IsTargetFileAsSpecified(path, moduleIsTarget)}

\* a walk of a target module with include and exclude paths: one file is a
\* target, one lies under an include path and is excluded, one is under no
\* include path
C9_Witness ==
    /\ rbResult.op = "WalkFileInfos"
    /\ ~rbResult.onlyTargetFiles
    /\ targetPathMap # {}
    /\ targetExcludePathMap # {}
    /\ \E f, g, h \in rbResult.fileInfos :
          /\ f.moduleWasTarget /\ f.isTargetFile
          /\ ~g.isTargetFile
          /\ \E include \in targetPathMap : EqualsOrLiesUnder(g.path, include)
          /\ \E exclude \in targetExcludePathMap : EqualsOrLiesUnder(g.path, exclude)
          /\ ~h.isTargetFile
          /\ ~\E include \in targetPathMap : EqualsOrLiesUnder(h.path, include)


\* the path lies under the directory and is not the directory
LiesStrictlyUnder(path, dir) == Len(dir) < Len(path) /\ EqualsOrLiesUnder(path, dir)

\* some include path of the configuration lies strictly under the module directory
SomeIncludePathUnderModule ==
    \E i \in 1..Len(config.targetPaths) :
        LiesStrictlyUnder(config.targetPaths[i], moduleTargeting.moduleDirPath)

\* C10: a module that is not tentatively targeted gets isTargetModule=false
\* and empty target path lists. A tentatively targeted module for which
\* newModuleTargeting returns a moduleTargeting gets isTargetModule=true iff
\* no include path and no proto-file target path was supplied, or some include
\* path lies strictly under the module directory, or the proto-file target
\* path lies under the module directory. In particular, with include paths as
\* the targets configured, a module that none of them falls under is not a
\* target module.
C10_IsTargetModule ==
    (moduleTargeting.called /\ moduleTargeting.result.err = "") =>
        LET result == moduleTargeting.result IN
        /\ ~moduleTargeting.isTentativelyTargetModule =>
              /\ ~result.isTargetModule
              /\ result.moduleTargetPaths = <<>>
              /\ result.moduleTargetExcludePaths = <<>>
        /\ moduleTargeting.isTentativelyTargetModule =>
              /\ result.isTargetModule <=>
                    \/ config.targetPaths = <<>> /\ config.protoFileTargetPath = NoPath
                    \/ SomeIncludePathUnderModule
                    \/ /\ config.protoFileTargetPath # NoPath
                       /\ LiesStrictlyUnder(config.protoFileTargetPath,
                                            moduleTargeting.moduleDirPath)
              /\ (/\ config.targetPaths # <<>>
                  /\ config.protoFileTargetPath = NoPath
                  /\ ~SomeIncludePathUnderModule) => ~result.isTargetModule

\* a tentatively targeted module in a directory of its own, with two include
\* paths configured that both lie elsewhere: it is no target module
C10_Witness ==
    /\ moduleTargeting.called
    /\ moduleTargeting.result.err = ""
    /\ moduleTargeting.isTentativelyTargetModule
    /\ moduleTargeting.moduleDirPath # Root
    /\ Len(config.targetPaths) = 2
    /\ config.targetPaths[1] # config.targetPaths[2]
    /\ config.protoFileTargetPath = NoPath
    /\ ~SomeIncludePathUnderModule
    /\ ~moduleTargeting.result.isTargetModule

\* GetWorkspaceForBucket has returned
BucketWorkspaceReturned == workspaceResult.returned /\ remoteModule = NoRemoteModule

\* the buf.yaml of a v2 workspace, when there is one
V2BufYAMLFile ==
    IF configOverride.status = "ok" THEN configOverride.file
    ELSE IF /\ Root \in DOMAIN bucketFiles
            /\ bucketFiles[Root].bufYAML.status = "ok"
            /\ bucketFiles[Root].bufYAML.file.fileVersion = "v2"
    THEN bucketFiles[Root].bufYAML.file
    ELSE NoBufYAMLFile

\* the directories of the modules of the workspace, in the order of the
\* resolution
WorkspaceModuleDirPaths ==
    IF workspaceTargeting.isV2
    THEN [i \in 1..Len(V2BufYAMLFile.moduleConfigs) |-> V2BufYAMLFile.moduleConfigs[i].dirPath]
    ELSE workspaceTargeting.v1DirPaths

\* the include paths and the exclude paths of the caller
CallerPaths == Range(bucketConfig.targetPaths) \cup Range(bucketConfig.targetExcludePaths)

\* the module directory equals the target sub-directory or lies under it
IsTentativelyTargeted(moduleDirPath) ==
    \/ bucketConfig.targetSubDirPath = Root
    \/ /\ Len(moduleDirPath) >= Len(bucketConfig.targetSubDirPath)
       /\ SubSeq(moduleDirPath, 1, Len(bucketConfig.targetSubDirPath))
             = bucketConfig.targetSubDirPath

\* the errors of the steps of a resolution that come before the targeting of
\* a module: the reads and the checks of buf.yaml and buf.lock
ErrorsBeforeTargeting ==
    {ErrRead, ErrDifferentRefs, ErrV1LockForV2, SysNotV1, SysNotOneModuleConfig,
     SysGetV2, SysNotV2, SysUnknownFileVersion}

\* C11 as stated: when an include path or an exclude path of the caller is the
\* directory of a module of the workspace, tentatively targeted or not, the
\* resolution fails
C11_PathEqualToAnyModuleDirFails ==
    (/\ BucketWorkspaceReturned
     /\ \E i \in 1..Len(WorkspaceModuleDirPaths) : WorkspaceModuleDirPaths[i] \in CallerPaths)
        => workspaceResult.err # ""

\* C11, amended: when an include path or an exclude path of the caller is the
\* directory of a tentatively targeted module of the workspace, the resolution
\* fails: no Workspace is returned, ModuleSetBuilder.Build is not called, and
\* the error is the configuration error of newModuleTargeting unless a read
\* or a check of a buf.yaml or a buf.lock failed before
C11_PathEqualToTargetedModuleDirFails ==
    (/\ BucketWorkspaceReturned
     /\ \E i \in 1..Len(WorkspaceModuleDirPaths) :
           /\ WorkspaceModuleDirPaths[i] \in CallerPaths
           /\ IsTentativelyTargeted(WorkspaceModuleDirPaths[i]))
        => /\ workspaceResult.workspace.nil
           /\ ~resolution.moduleSetBuilder.built
           /\ workspaceResult.err \in ModuleSpecifiedErrors \cup ErrorsBeforeTargeting

\* a resolution that failed with the configuration error, for a path that is
\* the directory of the second, tentatively targeted module
C11_Witness ==
    /\ BucketWorkspaceReturned
    /\ Len(WorkspaceModuleDirPaths) = 2
    /\ WorkspaceModuleDirPaths[2] \in CallerPaths
    /\ IsTentativelyTargeted(WorkspaceModuleDirPaths[2])
    /\ resolution.i = 2
    /\ workspaceResult.err \in ModuleSpecifiedErrors
\* the resolution went through its whole loop over the modules
ModulesLoopCompleted ==
    /\ BucketWorkspaceReturned
    /\ Len(WorkspaceModuleDirPaths) > 0
    /\ Len(resolution.moduleSetBuilder.localModules) = Len(WorkspaceModuleDirPaths)

NoModuleTentativelyTargeted ==
    \A i \in 1..Len(WorkspaceModuleDirPaths) : ~IsTentativelyTargeted(WorkspaceModuleDirPaths[i])

\* no module was added to the ModuleSetBuilder with isTargetModule=true
NoTargetModule ==
    \A i \in 1..Len(resolution.moduleSetBuilder.localModules) :
        ~resolution.moduleSetBuilder.localModules[i].isTargetModule

\* C12: a resolution from a bucket whose loop over the modules completed
\* returns a system error when no module directory is tentatively targeted,
\* and ErrNoTargetProtoFiles, which is no system error, when one is but no
\* module was made a target; in both cases ModuleSetBuilder.Build is not
\* called and no Workspace is returned
C12_NoTargetModuleErrors ==
    ModulesLoopCompleted =>
        /\ NoModuleTentativelyTargeted =>
              /\ workspaceResult.err \in SystemErrors
              /\ workspaceResult.err # ErrNoTargetProtoFiles
              /\ workspaceResult.workspace.nil
              /\ ~resolution.moduleSetBuilder.built
        /\ (~NoModuleTentativelyTargeted /\ NoTargetModule) =>
              /\ workspaceResult.err = ErrNoTargetProtoFiles
              /\ workspaceResult.err \notin SystemErrors
              /\ workspaceResult.workspace.nil
              /\ ~resolution.moduleSetBuilder.built

\* a v2 workspace of two modules, one of them tentatively targeted, that
\* returned ErrNoTargetProtoFiles
C12_Witness ==
    /\ ModulesLoopCompleted
    /\ workspaceTargeting.isV2
    /\ Len(WorkspaceModuleDirPaths) = 2
    /\ ~NoModuleTentativelyTargeted
    /\ NoTargetModule
    /\ workspaceResult.err = ErrNoTargetProtoFiles
\* a buf.lock of the workspace has another version than the buf.yaml files: a
\* v1beta1 or v1 buf.lock next to the v2 buf.yaml, or a v2 buf.lock in a
\* module directory of a v1beta1 or v1 workspace
LockFileVersionMismatch ==
    \E dir \in DOMAIN bucketFiles :
        /\ bucketFiles[dir].bufLock.status = "ok"
        /\ IF workspaceTargeting.isV2
           THEN bucketFiles[dir].bufLock.file.fileVersion \in {"v1beta1", "v1"}
           ELSE bucketFiles[dir].bufLock.file.fileVersion = "v2"

VersionMismatchErrors == {ErrV1LockForV2, ErrV2LockForV1}

\* C13: a resolution from a bucket in which a buf.lock has another version
\* than the buf.yaml files fails, with the version-mismatch error or with the
\* error of a step that comes before the check of that buf.lock
C13_LockFileVersionMismatchFails ==
    (BucketWorkspaceReturned /\ LockFileVersionMismatch)
        => workspaceResult.err \in
              VersionMismatchErrors \cup ErrorsBeforeTargeting \cup ModuleSpecifiedErrors
\* the deps that the buf.yaml of a module directory declares
DeclaredDepModuleRefs(dir) ==
    IF bucketFiles[dir].bufYAML.status = "ok"
    THEN Range(bucketFiles[dir].bufYAML.file.configuredDepModuleRefs)
    ELSE {}

\* GetWorkspaceForBucket has returned for a v1beta1 or v1 workspace whose
\* buf.yaml files are those of the module directories
V1FilesRead ==
    /\ BucketWorkspaceReturned
    /\ ~workspaceTargeting.isV2
    /\ configOverride.status = "notExist"

\* two buf.yaml files declare a dependency on one ModuleFullName with
\* different refs
ConflictingRefs ==
    \E d1, d2 \in DOMAIN bucketFiles :
        \E r1 \in DeclaredDepModuleRefs(d1), r2 \in DeclaredDepModuleRefs(d2) :
            r1.moduleFullName = r2.moduleFullName /\ r1.ref # r2.ref

\* C14: a v1beta1 or v1 resolution over buf.yaml files that declare different
\* refs for one ModuleFullName returns no Workspace, and the conflicting-ref
\* error unless a step before failed; in a Workspace that is returned, every
\* declared name is in ConfiguredDepModuleRefs exactly once, with its ref
C14_ConflictingRefsFail ==
    V1FilesRead =>
        /\ ConflictingRefs =>
              /\ workspaceResult.workspace.nil
              /\ workspaceResult.err \in
                    {ErrDifferentRefs} \cup ErrorsBeforeTargeting \cup ModuleSpecifiedErrors
        /\ ~workspaceResult.workspace.nil =>
              LET refs == workspaceResult.workspace.configuredDepModuleRefs IN
              /\ \A i, j \in 1..Len(refs) :
                    refs[i].moduleFullName = refs[j].moduleFullName => i = j
              /\ Range(refs) = UNION {DeclaredDepModuleRefs(dir) : dir \in DOMAIN bucketFiles}

\* two module directories whose buf.yaml files declare different refs for
\* module "dep": the resolution returned the conflicting-ref error
C14_Witness ==
    /\ V1FilesRead
    /\ ConflictingRefs
    /\ resolution.i = 2
    /\ workspaceResult.err = ErrDifferentRefs
\* C15: in every Workspace that GetWorkspaceForBucket or
\* GetWorkspaceForModuleKey returns, every module of the ModuleSet that is no
\* target module has the default lint config and the default breaking config
C15_NonTargetModulesHaveDefaultConfig ==
    (workspaceResult.returned /\ ~workspaceResult.workspace.nil) =>
        \A i \in 1..Len(workspaceResult.workspace.moduleSet) :
            ~workspaceResult.workspace.moduleSet[i].isTargetModule =>
                /\ workspaceResult.workspace.opaqueIDToLintConfig[i] = DefaultLintConfig
                /\ workspaceResult.workspace.opaqueIDToBreakingConfig[i] = DefaultBreakingConfig
\* GetWorkspaceForModuleKey has returned
ModuleKeyWorkspaceReturned == workspaceResult.returned /\ remoteModule # NoRemoteModule

\* the lint and breaking configs that the target modules of the returned
\* Workspace have
ConfigsOfTargetModules ==
    {<<workspaceResult.workspace.opaqueIDToLintConfig[i],
       workspaceResult.workspace.opaqueIDToBreakingConfig[i]>> :
        i \in {j \in 1..Len(workspaceResult.workspace.moduleSet) :
                  workspaceResult.workspace.moduleSet[j].isTargetModule}}

\* the module configs of the override that have the name of the ModuleKey
OverrideConfigsNamed(moduleFullName) ==
    {mc \in Range(configOverride.file.moduleConfigs) : mc.moduleFullName = moduleFullName}

\* C16: GetWorkspaceForModuleKey with a config override returns a system
\* error for an override of zero module configs; in the Workspace it returns,
\* the target module has the lint and breaking config of the single module
\* config of the override, whatever its name, or of the module config named
\* as the ModuleKey when there are several, or the default ones when there
\* are several and none is named so
C16_OverrideConfigOfTargetModule ==
    (ModuleKeyWorkspaceReturned /\ configOverride.status = "ok") =>
        LET moduleConfigs == configOverride.file.moduleConfigs
            named == OverrideConfigsNamed(remoteModule.moduleFullName)
        IN
        /\ Len(moduleConfigs) = 0 =>
              /\ workspaceResult.workspace.nil
              /\ workspaceResult.err \in SystemErrors
        /\ ~workspaceResult.workspace.nil =>
              /\ Len(moduleConfigs) = 1 =>
                    ConfigsOfTargetModules =
                        {<<moduleConfigs[1].lintConfig, moduleConfigs[1].breakingConfig>>}
              /\ (Len(moduleConfigs) > 1 /\ named # {}) =>
                    ConfigsOfTargetModules = {<<mc.lintConfig, mc.breakingConfig>> : mc \in named}
              /\ (Len(moduleConfigs) > 1 /\ named = {}) =>
                    ConfigsOfTargetModules = {<<DefaultLintConfig, DefaultBreakingConfig>>}

\* an override of several module configs, the second of which has the name of
\* the ModuleKey: the target module of the Workspace has its configs
C16_Witness ==
    /\ ModuleKeyWorkspaceReturned
    /\ configOverride.status = "ok"
    /\ Len(configOverride.file.moduleConfigs) > 1
    /\ configOverride.file.moduleConfigs[2].moduleFullName = remoteModule.moduleFullName
    /\ Len(workspaceResult.workspace.moduleSet) > 1
    /\ ConfigsOfTargetModules = {<<LintConfig(OverrideIDs[2]), BreakingConfig(OverrideIDs[2])>>}
\* the modules given to Upload
InputModules == targetLocalModulesAndTransitiveLocalDeps

\* the input modules that have a ModuleFullName are of several registries
SpanRegistries ==
    \E i, j \in 1..Len(InputModules) :
        /\ InputModules[i].moduleFullName # NoModuleFullName
        /\ InputModules[j].moduleFullName # NoModuleFullName
        /\ InputModules[i].moduleFullName.registry # InputModules[j].moduleFullName.registry

C18_CommitsMatchInputModules ==
    (uploadResult.returned /\ uploadResult.requests # <<>>) =>
        /\ Len(uploadResult.response) # Len(uploadResult.requests[1]) =>
              /\ uploadResult.err # NoUploadError
              /\ uploadResult.commits = <<>>
        /\ uploadResult.err = NoUploadError =>
              /\ Len(uploadResult.response) = Len(uploadResult.requests[1])
              /\ Len(uploadResult.commits) = Len(InputModules)
              /\ \A i \in 1..Len(InputModules) :
                    /\ uploadResult.commits[i].moduleFullName = InputModules[i].moduleFullName
                    /\ uploadResult.commits[i].commitID = <<uploadResult.response[i].id, i>>
                    /\ uploadResult.commits[i].digest = <<uploadResult.response[i].digest, i>>

\* an upload of two modules that returned two commits
C18_Witness ==
    /\ uploadResult.returned
    /\ uploadResult.err = NoUploadError
    /\ Len(InputModules) = 2
    /\ Len(uploadResult.commits) = 2
    /\ uploadResult.commits[1].moduleFullName # uploadResult.commits[2].moduleFullName

\* the OpaqueIDs of the uploaded batch
UploadedBatch == {InputModules[i].opaqueID : i \in 1..Len(InputModules)}

\* a dependency that no dep ref can be made of: it has no ModuleFullName, it
\* is local and not in the uploaded batch, or it is remote and has no commit
\* ID
UnusableDep(moduleDep) ==
    \/ moduleDep.moduleFullName = NoModuleFullName
    \/ moduleDep.isLocal /\ moduleDep.opaqueID \notin UploadedBatch
    \/ ~moduleDep.isLocal /\ moduleDep.commitID = NilCommitID

\* C19: in every content of an upload request, every transitive dependency of
\* the module is one dep ref, a local dependency by its name only and a
\* remote one by its name and its commit ID, which is not nil; the upload
\* fails, without a request, when a dependency has no ModuleFullName, is local
\* and not in the uploaded batch, or is remote without commit ID
C19_DepRefsOfTransitiveDeps ==
    uploadResult.returned =>
        /\ (\E i \in 1..Len(InputModules) :
               \E j \in 1..Len(InputModules[i].moduleDeps) :
                   UnusableDep(InputModules[i].moduleDeps[j]))
              => uploadResult.err # NoUploadError /\ uploadResult.requests = <<>>
        /\ uploadResult.requests # <<>> =>
              \A i \in 1..Len(InputModules) :
                  LET moduleDeps == InputModules[i].moduleDeps
                      depRefs == uploadResult.requests[1][i].depRefs
                  IN
                  /\ Len(depRefs) = Len(moduleDeps)
                  /\ \A j \in 1..Len(moduleDeps) :
                        /\ depRefs[j].moduleRef = <<moduleDeps[j].moduleFullName.owner,
                                                    moduleDeps[j].moduleFullName.name>>
                        /\ moduleDeps[j].isLocal =>
                              /\ depRefs[j].commitID = NilCommitID
                              /\ moduleDeps[j].opaqueID \in UploadedBatch
                        /\ ~moduleDeps[j].isLocal =>
                              /\ depRefs[j].commitID = moduleDeps[j].commitID
                              /\ depRefs[j].commitID # NilCommitID

\* a request in which a module has a local dependency of the batch and a
\* remote dependency
C19_Witness ==
    /\ uploadResult.returned
    /\ uploadResult.requests # <<>>
    /\ \E i \in 1..Len(InputModules) :
          /\ Len(InputModules[i].moduleDeps) = 2
          /\ InputModules[i].moduleDeps[1].isLocal
          /\ ~InputModules[i].moduleDeps[2].isLocal
          /\ uploadResult.requests[1][i].depRefs[2].commitID # NilCommitID
\* the bucket has a target file
HasTargetFiles == \E f \in Files : isTargetFile[f]

\* C20: buildImage calls the compiler only for a bucket that is
\* self-contained and has a target file; for a bucket that is not
\* self-contained it returns a system error, for a self-contained bucket
\* without target files the error "no input files specified", which is no
\* system error, and in both cases no image and no annotations
C20_CompilesOnlyAfterBothChecks ==
    numRuns > 0 =>
        /\ lastResult.compiled # "none" => (shouldBeSelfContained /\ HasTargetFiles)
        /\ ~shouldBeSelfContained =>
              /\ lastResult.kind = "error"
              /\ lastResult.err = "syserror: not self-contained"
              /\ lastResult.image = <<>>
              /\ lastResult.annotations = <<>>
        /\ (shouldBeSelfContained /\ ~HasTargetFiles) =>
              /\ lastResult.kind = "error"
              /\ lastResult.err = "no input files specified"
              /\ lastResult.image = <<>>
              /\ lastResult.annotations = <<>>

\* a build of a self-contained bucket of files none of which is a target
C20_Witness ==
    /\ numRuns > 0
    /\ shouldBeSelfContained
    /\ ~HasTargetFiles
    /\ \E f \in Files : imports[f] # <<>>
    /\ lastResult.err = "no input files specified"
    /\ lastResult.compiled = "none"

(***************************************************************************)
(* Properties of the results of buildImage                                 *)
(***************************************************************************)
\* the three values buildImage returns, as its caller sees them
ImageReturned(r) == r.image # <<>> /\ r.annotations = <<>> /\ r.err = ""

AnnotationsReturned(r) == r.image = <<>> /\ r.annotations # <<>> /\ r.err = ""

ErrorReturned(r) == r.image = <<>> /\ r.annotations = <<>> /\ r.err # ""

\* the compiler found parse or link errors: its reporter was handed an error,
\* or Compile returned an error with a position
ParseOrLinkDiagnostics(r) ==
    r.diagnostics.reported \/ r.diagnostics.err = "ErrorWithPos"

\* the diagnostics come with the error Compile returns for them, and each of
\* them converts to a FileAnnotation
ConvertibleDiagnostics(r) ==
    /\ \/ r.diagnostics.err = "ErrInvalidSource" /\ r.diagnostics.reported
       \/ r.diagnostics.err = "ErrorWithPos"
    /\ ~r.diagnostics.annotationFails

\* C21 (as stated): every result of buildImage is an image alone, annotations
\* alone or an error alone, and parse/link diagnostics of the compiler always
\* give annotations, never an error.
C21_DiagnosticsAlwaysAnnotations ==
    numRuns > 0 =>
        /\ \/ ImageReturned(lastResult)
           \/ AnnotationsReturned(lastResult)
           \/ ErrorReturned(lastResult)
        /\ ParseOrLinkDiagnostics(lastResult) => AnnotationsReturned(lastResult)

\* C21 (amended): every result of buildImage is an image alone, at least one
\* annotation alone, or an error alone; parse/link diagnostics give
\* annotations when Compile returned ErrInvalidSource or an error with a
\* position and every diagnostic converts to a FileAnnotation, and give an
\* error alone otherwise; annotations are only returned for such diagnostics.
C21_ThreeFormsOfResult ==
    numRuns > 0 =>
        /\ \/ ImageReturned(lastResult)
           \/ AnnotationsReturned(lastResult)
           \/ ErrorReturned(lastResult)
        /\ ~(lastResult.image # <<>> /\ lastResult.annotations # <<>>)
        /\ ParseOrLinkDiagnostics(lastResult) =>
              IF ConvertibleDiagnostics(lastResult)
              THEN AnnotationsReturned(lastResult)
              ELSE ErrorReturned(lastResult)
        /\ AnnotationsReturned(lastResult) => ConvertibleDiagnostics(lastResult)

\* the compiler reported three errors, two of them at the same place, and
\* buildImage returned two annotations and no error
C21_Witness ==
    /\ numRuns > 0
    /\ lastResult.diagnostics.err = "ErrInvalidSource"
    /\ lastResult.diagnostics.reported
    /\ Len(lastResult.annotations) = 2
    /\ lastResult.err = ""
    /\ lastResult.image = <<>>


\* the paths buildImage asks the compiler for: the target files, sorted
RequestedPaths == Ascending(TargetPaths)

\* Compile returned no error and its reporter was handed no error
CleanCompile(r) == r.diagnostics.err = "nil" /\ ~r.diagnostics.reported

\* the defects of the descriptors that buildImage looks for
DescriptorCountDiffers(r) == Len(r.compiledFiles) # Len(RequestedPaths)

DescriptorPathDiffers(r) ==
    \E i \in 1..Len(r.compiledFiles) :
        i <= Len(RequestedPaths) /\ r.compiledFiles[i] # RequestedPaths[i]

DescriptorWithoutPath(r) == EmptyPath \in Range(r.compiledFiles)

DescriptorsSharePath(r) == ~IsInjective(r.compiledFiles)

DescriptorErrors ==
    {"expected FileDescriptors to be of length",
     "expected fileDescriptor name to be equal to path",
     "sort: length mismatch", "sort: no name on FileDescriptor",
     "sort: duplicate FileDescriptor", "sort: no FileDescriptor for rootRelFilePath"}

C22_DigestOfNonWasmPluginIsError ==
    (plugin.constructed /\ ~plugin.isWasm /\ pluginReturn.method = "Digest")
        => pluginReturn.kind = "error"

\* C23: the Description of a constructed Plugin is never empty: it is the
\* description given to the constructor when that is not empty and the
\* OpaqueID otherwise, and the OpaqueID is not empty.
C23_DescriptionNeverEmpty ==
    plugin.constructed =>
        /\ PluginOpaqueID(plugin) # EmptyString
        /\ pluginReturn.method = "Description" =>
              /\ pluginReturn.val # EmptyString
              /\ pluginReturn.val =
                    IF plugin.description # EmptyString
                    THEN plugin.description
                    ELSE PluginOpaqueID(plugin)


(***************************************************************************)
(* Properties of the check server                                          *)
(***************************************************************************)
\* C28: the rule handler is handed the current files built from the files of
\* the request and the against files built from the against files of the
\* request (so for a request whose against files differ from its files, the
\* against set of the handler is not the set of its current files).
C28_HandlerGetsAgainstFiles ==
    handlerRequest.called =>
        /\ handlerRequest.protosourceFiles = NewProtosourceFiles(checkRequest.files)
        /\ handlerRequest.againstProtosourceFiles =
              NewProtosourceFiles(checkRequest.againstFiles)


\* C30: Upload called with an empty list of modules returns a result or an
\* error: it does not panic, and it does not call the upload service of an
\* undefined registry.
C30_EmptyUploadReturnsNormally ==
    (uploadResult.returned /\ targetLocalModulesAndTransitiveLocalDeps = <<>>)
        => /\ uploadResult.err # ErrPanic
           /\ uploadResult.requests = <<>>


(***************************************************************************)
(* Properties of concurrent ModuleData calls                               *)
(***************************************************************************)
\* C25: under any interleaving of Bucket() and DeclaredDepModuleKeys() calls
\* on one ModuleData, the getBucket function, the getDeclaredDepModuleKeys
\* function and the digest check each run at most once; every call returns
\* what that one execution produced, and a successful Bucket() call returns
\* the bucket that the check digested.
C25_EachFunctionRunsAtMostOnce ==
    /\ mdRuns.getBucket <= 1
    /\ mdRuns.getDeclaredDepModuleKeys <= 1
    /\ mdRuns.checkDigest <= 1
    /\ \A i \in 1..Len(mdReturns) :
          LET r == mdReturns[i] IN
          /\ checkDigest.state = "done"
          /\ r.err = IF checkDigest.err # "" THEN checkDigest.err ELSE ""
          /\ (r.op = "Bucket" /\ r.err = "") =>
                /\ r.bucket = getBucket.val
                /\ actualDigest = getB5Digest(r.bucket, getDeclaredDepModuleKeys.val)
          /\ (r.op = "DeclaredDepModuleKeys" /\ r.err = "") =>
                r.deps = getDeclaredDepModuleKeys.val

\* a Bucket() call and a DeclaredDepModuleKeys() call have returned data, a
\* third call is under way, and each of the three functions ran once
C25_Witness ==
    /\ Len(mdReturns) = 2
    /\ \E i, j \in 1..2 :
          /\ mdReturns[i].op = "Bucket" /\ mdReturns[i].err = ""
          /\ mdReturns[j].op = "DeclaredDepModuleKeys" /\ mdReturns[j].err = ""
    /\ mdCalls = 3
    /\ mdRuns = [getBucket |-> 1, getDeclaredDepModuleKeys |-> 1, checkDigest |-> 1]


(***************************************************************************)
(* Properties of the digest check of the lazy Module                       *)
(***************************************************************************)
\* the digest of the module the delegate handed back equals the digest that
\* the ModuleInfo expects
FetchedDigestAsExpected(module) ==
    /\ moduleInfo.digest.err = ""
    /\ DigestEqual(moduleInfo.digest.digest, ModuleDigest(module))

\* C26: a lazy Module serves content (GetFile, StatFileInfo, WalkFileInfos,
\* DepModules) and returns a digest only if the digest of the module fetched
\* from the delegate equals the digest its ModuleInfo expects; when the two
\* differ the resolution fails, and every content-bearing method, Digest and
\* DepModules included, returns an error.
C26_ContentOnlyAfterDigestMatch ==
    [][ /\ \A c \in Callers :
              (lmPc[c] = "digests" /\ lmPc'[c] # "digests"
                  /\ ~FetchedDigestAsExpected(getModuleAndDigest.module))
              => /\ getModuleAndDigest'.state = "done"
                 /\ getModuleAndDigest'.err # ""
                 /\ getModuleAndDigest'.module = NoModule
                 /\ getModuleAndDigest'.digest = NoDigest
        /\ \A r \in lmReturns' \ lmReturns :
              r.op \in ContentMethods =>
                 /\ r.err = "" =>
                       /\ getModuleAndDigest.state = "done"
                       /\ FetchedDigestAsExpected(getModuleAndDigest.module)
                       /\ r.op = "Digest" => r.digest = moduleInfo.digest.digest
                       /\ r.op # "Digest" => r.module = getModuleAndDigest.module
                 /\ getModuleAndDigest.err # "" =>
                       /\ r.err = getModuleAndDigest.err
                       /\ r.module = NoModule
                       /\ r.digest = NoDigest
      ]_vars

\* the fetched module had another digest than expected, and Digest,
\* DepModules and GetFile have each returned the error of the comparison
C26_Witness ==
    /\ getModuleAndDigest.err = "expected digest, got another"
    /\ \A op \in {"Digest", "DepModules", "GetFile"} :
          \E r \in lmReturns : r.op = op /\ r.err = getModuleAndDigest.err


(***************************************************************************)
(* Properties of the runner of a remote plugin                             *)
(***************************************************************************)
\* C29: under any number of sequential or concurrent Run calls the remote
\* plugin is fetched and compiled at most once, with the context of the Run
\* that came first; every Run either runs that one compiled module or
\* returns the one kept load error; once the load is over its result is
\* never replaced and nothing is loaded again, also for a Run with a fresh
\* context after a failed load.
C29_RemotePluginLoadedAtMostOnce ==
    [][ /\ rnLoads'.fetch <= 1
        /\ rnLoads'.compile <= 1
        /\ rnLoads' # rnLoads =>
              /\ rnOnce.state = "running"
              /\ rnPc[rnOnce.executor] \in {"loadRemotePlugin", "Compile"}
              /\ (rnCtx[rnOnce.executor] = "cancelled" /\ pluginConfig.hasPluginRef) =>
                    rnOnce'.compiledModuleErr = CtxCanceled
        /\ rnOnce.state = "done" => (rnOnce' = rnOnce /\ rnLoads' = rnLoads)
        /\ \A r \in rnReturns' \ rnReturns :
              /\ rnOnce.state = "done"
              /\ IF rnOnce.compiledModuleErr # ""
                 THEN r.err = rnOnce.compiledModuleErr /\ r.ran = NoCompiledModule
                 ELSE r.ran = rnOnce.compiledModule /\ r.ran # NoCompiledModule
      ]_vars

\* the context of the first Run was cancelled and the load failed; a later
\* Run with a live context has returned the kept error, after one fetch
C29_Witness ==
    /\ rnOnce.state = "done"
    /\ rnOnce.compiledModuleErr = CtxCanceled
    /\ rnLoads.fetch = 1
    /\ rnCalls = MaxCalls
    /\ \E r \in rnReturns : r.ctx = "live" /\ r.err = CtxCanceled
    /\ \E r \in rnReturns : r.ctx = "cancelled" /\ r.err = CtxCanceled

(***************************************************************************)
(* Properties of a cancelled memoized computation                          *)
(***************************************************************************)
\* a caller of Run blocked in once.Do while the Run that loads the plugin has
\* its context cancelled
RnBlockedOnCancelled(c) ==
    /\ rnPc[c] = "once.Do"
    /\ rnOnce.state = "running"
    /\ rnCtx[rnOnce.executor] = "cancelled"

\* the caller is back from Run with the kept error of the load
RnBackWithFailure(c) ==
    /\ rnPc[c] = "idle"
    /\ rnOnce.state = "done"
    /\ rnOnce.compiledModuleErr # ""
    /\ \E r \in rnReturns : r.ran = NoCompiledModule /\ r.err = rnOnce.compiledModuleErr

\* a caller of Bucket() or DeclaredDepModuleKeys() blocked in checkDigest()
\* while the check runs under a cancelled context
MdBlockedOnCancelled(c) ==
    /\ mdPc[c] = "checkDigest"
    /\ checkDigest.state = "running"
    /\ capturedCtx = "cancelled"

\* the caller is back with the kept error of the check
MdBackWithFailure(c) ==
    /\ mdPc[c] = "idle"
    /\ checkDigest.state = "done"
    /\ checkDigest.err # ""
    /\ \E i \in 1..Len(mdReturns) : mdReturns[i].err = checkDigest.err

\* a caller of a content-bearing method blocked in getModuleAndDigest() while
\* the delegate has still to be asked and the context is cancelled
LmBlockedOnCancelled(c) ==
    /\ lmPc[c] = "getModuleAndDigest"
    /\ getModuleAndDigest.state = "running"
    /\ lmFetches = 0
    /\ capturedCtx = "cancelled"

\* the caller is back with the kept error of the resolution
LmBackWithFailure(c) ==
    /\ lmPc[c] = "idle"
    /\ getModuleAndDigest.state = "done"
    /\ getModuleAndDigest.err # ""
    /\ \E r \in lmReturns : r.op \in ContentMethods /\ r.err = getModuleAndDigest.err

\* a caller of DepModules() blocked in getDepModules() while it runs under a
\* cancelled context
LmDepsBlockedOnCancelled(c) ==
    /\ lmPc[c] = "getDepModules"
    /\ getDepModules.state = "running"
    /\ capturedCtx = "cancelled"

\* the caller is back with the kept error of getDepModules
LmDepsBackWithFailure(c) ==
    /\ lmPc[c] = "idle"
    /\ getDepModules.state = "done"
    /\ getDepModules.err # ""
    /\ \E r \in lmReturns : r.op = "DepModules" /\ r.err = getDepModules.err

====
